---- MODULE Spec2Model ----
(***************************************************************************)
(* State-machine model of the ExchangeBlocker of the trading engine        *)
(* (src/src/core/exchanges/exchange_blocker.rs): the blockers map of one   *)
(* exchange account, the event channel, the events processor, the spawned  *)
(* handler tasks, the unblock timers and the tasks suspended in            *)
(* wait_unblock / wait_unblock_with_reason.                                *)
(*                                                                         *)
(* Atomicity follows the locks of the source.  block() holds the write     *)
(* lock of the map for the whole call.  unblock() sets the flag under the  *)
(* read lock and enqueues its event after releasing it: two steps.  The    *)
(* waiters clone the Notify objects under the read lock and create the     *)
(* Notified futures after releasing it: two steps.  A spawned handler task *)
(* starts later than the processor step that spawns it.                    *)
(***************************************************************************)
EXTENDS Bags, FiniteSets, Integers, Sequences, TLC

(* ------------------------------ bounds ------------------------------- *)

\* client calls of block(_, _, Manual) in a run
MaxManual == 2

\* client calls of unblock in a run
MaxUnblock == 1

\* handlers that can be registered
NumHandlers == 2

\* concurrent callers of wait_unblock / wait_unblock_with_reason
NumWaiters == 1

\* the clock stops here
MaxTime == 3

(* ------------------------------ domains ------------------------------ *)

\* BlockReason values used by the callers (reason1 / reason2 of the tests)
Reasons == {"reason1", "reason2"}

Handlers == 1..NumHandlers

Waiters == 1..NumWaiters

\* Timed(duration) arguments
Durations == 1..MaxTime

ExchangeBlockerMoment == {"Blocked", "BeforeUnblocked", "Unblocked"}

ExchangeBlockerEventType ==
    {"MoveToBlocked", "UnblockRequested", "MoveBlockedToBeforeUnblocked",
     "MoveBeforeUnblockedToUnblocked"}

\* ProgressStatus derives Ord: the declaration order is the order
ProgressStatus ==
    <<"WaitBlockedMove", "ProgressBlocked", "WaitBeforeUnblockedMove", "WaitUnblockedMove">>

StatusRank(s) == CHOOSE i \in 1..Len(ProgressStatus) : ProgressStatus[i] = s

\* Timeout::ReadyUnblock
ReadyUnblock == [kind |-> "ReadyUnblock", end_time |-> 0, timer |-> 0]

\* Timeout::in_progress(end_time, timer_handle)
InProgress(end_time, timer) == [kind |-> "InProgress", end_time |-> end_time, timer |-> timer]

\* Blocker::new
NewBlocker(timeout) ==
    [timeout |-> timeout, is_unblock_requested |-> FALSE, status |-> "WaitBlockedMove"]

VARIABLES
    blockers,        \* HashMap<BlockReason, Blocker> of the exchange account
    gen,             \* per reason: blockers created so far; <<r, gen[r]>> names the Notify of the current one
    queue,           \* the mpsc channel of ExchangeBlockerInternalEvent
    proc,            \* the processing task: "recv", "panicked" or "closed"
    cancelled,       \* cancellation token of the events processor
    stopHandle,      \* processing_handle: TRUE while stop_processing has not taken it
    stopPending,     \* stop_processing() calls between cancel() and taking the handle
    handlers,        \* the registered handlers (BlockerEventHandlerVec)
    tasks,           \* bag of spawned handler tasks
    invoked,         \* <<handler, reason, moment>> -> number of invocations
    pendingUnblock,  \* per reason: unblock() calls that set the flag and have not sent the event yet
    timers,          \* live timer tasks of set_unblock_by_timer
    timerSeq,        \* timer tasks spawned so far
    now,             \* Instant::now()
    waiters,         \* callers of wait_unblock / wait_unblock_with_reason
    budget,          \* client calls left
    manualSince,     \* per reason: a Manual block was accepted and unblock was not called since
    deadline,        \* per reason: end_time of the timer scheduled last
    panics,          \* handler tasks that panicked in blocker_progress_apply_fn
    reservations,    \* balance_reservation_storage: ReservationId -> BalanceReservation
    reserved_amount, \* reserved_amount_in_amount_currency, by the currency code of the request
    virtual_balance, \* virtual_balance_holder: exchange balance plus diffs, by currency code
    reservation_id,  \* the ReservationId generated last
    amount_limits,   \* amount_limits_in_amount_currency, by the currency code of the request
    is_call_from_clone, \* the manager is a clone of the manager of the engine
    outcome          \* the last call of the reservation manager, its result and the state before it

\* the state of the ExchangeBlocker
ebVars ==
    <<blockers, gen, queue, proc, cancelled, stopHandle, stopPending, handlers, tasks, invoked,
      pendingUnblock, timers, timerSeq, now, waiters, budget, manualSince, deadline, panics>>

\* the state of the BalanceReservationManager
brmVars ==
    <<reservations, reserved_amount, virtual_balance, reservation_id, amount_limits,
      is_call_from_clone, outcome>>

vars == <<ebVars, brmVars>>

(* ----------------------- reservation manager data -------------------- *)

\* balances the exchange reports, in units of a third of the amount rounding step
BaseBalance == 12
QuoteBalance == 24

CurrencyCodes == {"base", "quote"}

NoCall == [call |-> "none"]

\* BalanceReservationManager::new over the balances of the exchange
NewManager ==
    /\ reservations = << >>
    /\ reserved_amount = [c \in CurrencyCodes |-> 0]
    /\ virtual_balance = [c \in CurrencyCodes |-> IF c = "base" THEN BaseBalance ELSE QuoteBalance]
    /\ reservation_id = 0
    /\ amount_limits = [c \in CurrencyCodes |-> << >>]
    /\ is_call_from_clone = FALSE
    /\ outcome = NoCall

(* ------------------------------ queries ------------------------------ *)

Present(r) == r \in DOMAIN blockers

is_blocked == ~(DOMAIN blockers = {})

is_blocked_by_reason(reason) == reason \in DOMAIN blockers

\* a variant of is_blocked_except_reason that does not look at the reason
is_blocked_except_reason_any(reason) == Cardinality(DOMAIN blockers) > 0

is_blocked_except_reason(reason) ==
    LET is_blocker_exists == reason \in DOMAIN blockers
        blockers_count == Cardinality(DOMAIN blockers)
    IN  \/ is_blocker_exists /\ blockers_count > 1
        \/ ~is_blocker_exists /\ blockers_count > 0

\* the Notify <<r, g>> had notify_waiters() called: its blocker was removed
Fired(n) == n[2] < gen[n[1]] \/ ~Present(n[1])

(* ------------------------------ helpers ------------------------------ *)

Event(reason, event_type) == [reason |-> reason, event_type |-> event_type]

\* the channel is closed once the processing task has ended and dropped the receiver
IsClosed == proc # "recv"

\* ExchangeBlockerEventsProcessor::add_event on channel contents q
add_event(q, event) == IF IsClosed THEN q ELSE Append(q, event)

PutBlocker(r, b) == [x \in DOMAIN blockers \cup {r} |-> IF x = r THEN b ELSE blockers[x]]

DropBlocker(r) == [x \in DOMAIN blockers \ {r} |-> blockers[x]]

\* rollback_to_blocked_progress
rollback_to_blocked_progress(b) ==
    [b EXCEPT !.is_unblock_requested = FALSE,
              !.status = IF StatusRank(b.status) >= StatusRank("ProgressBlocked")
                         THEN "ProgressBlocked"
                         ELSE b.status]

Task(reason, moment) ==
    [reason |-> reason, gen |-> gen[reason], moment |-> moment, phase |-> "spawned",
     pending |-> {}]

\* spawn_future(action)
Spawn(t) == tasks (+) SetToBag({t})

TimerTask(id, reason, end_time) ==
    [id |-> id, reason |-> reason, end_time |-> end_time, phase |-> "sleeping"]

IdleWaiter == [pc |-> "idle", target |-> "none", snap |-> {}, missed |-> FALSE, ret |-> "none"]

(* ------------------------------- block ------------------------------- *)

\* the Entry::Vacant arm of block() for Manual: create_blocker, insert, MoveToBlocked
BlockVacantManual(reason) ==
    /\ blockers' = PutBlocker(reason, NewBlocker(ReadyUnblock))
    /\ gen' = [gen EXCEPT ![reason] = @ + 1]
    /\ queue' = add_event(queue, Event(reason, "MoveToBlocked"))
    /\ manualSince' = [manualSince EXCEPT ![reason] = TRUE]

\* a variant of ResetManual in which a Manual block takes over a blocker whose timer is
\* in progress
ResetManualTakeOver(reason) ==
    /\ blockers' =
        PutBlocker(reason,
            [rollback_to_blocked_progress(blockers[reason]) EXCEPT !.timeout = ReadyUnblock])
    /\ manualSince' = [manualSince EXCEPT ![reason] = TRUE]
    /\ UNCHANGED <<gen, queue>>

\* timeout_reset_if_exists for Manual
ResetManual(reason) ==
    /\ IF blockers[reason].timeout.kind = "ReadyUnblock"
       THEN /\ blockers' = PutBlocker(reason, rollback_to_blocked_progress(blockers[reason]))
            /\ manualSince' = [manualSince EXCEPT ![reason] = TRUE]
       ELSE UNCHANGED <<blockers, manualSince>>
    /\ UNCHANGED <<gen, queue>>

\* block(exchange_account_id, reason, Manual)
BlockManual(reason) ==
    /\ budget.manual > 0
    /\ budget' = [budget EXCEPT !.manual = @ - 1]
    /\ IF Present(reason) THEN ResetManual(reason) ELSE BlockVacantManual(reason)
    /\ UNCHANGED <<proc, cancelled, stopHandle, stopPending, tasks, invoked, pendingUnblock,
                   timers, timerSeq, now, waiters, panics,
                   handlers, deadline, brmVars>>

\* the Entry::Vacant arm of block() for Timed: timeout_init and set_unblock_by_timer
BlockVacantTimed(reason, duration) ==
    LET expected_end_time == now + duration IN
    /\ blockers' = PutBlocker(reason, NewBlocker(InProgress(expected_end_time, timerSeq + 1)))
    /\ timers' = timers \cup {TimerTask(timerSeq + 1, reason, expected_end_time)}
    /\ timerSeq' = timerSeq + 1
    /\ deadline' = [deadline EXCEPT ![reason] = expected_end_time]
    /\ gen' = [gen EXCEPT ![reason] = @ + 1]
    /\ queue' = add_event(queue, Event(reason, "MoveToBlocked"))

\* timer_handle.abort(): the task is dropped at its await point; a task that is past
\* sleep_until has no await point left and runs to its end
Aborted(t, timer) == t.id = timer /\ t.phase = "sleeping"

\* a variant of ResetTimed without the early return: the timer is always replaced
ResetTimedAlways(reason, duration) ==
    LET expected_end_time == now + duration
        timeout == blockers[reason].timeout
    IN
    /\ deadline' = [deadline EXCEPT ![reason] = expected_end_time]
    /\ blockers' =
        PutBlocker(reason,
            [rollback_to_blocked_progress(blockers[reason])
                EXCEPT !.timeout = InProgress(expected_end_time, timerSeq + 1)])
    /\ timers' =
        {t \in timers : ~(timeout.kind = "InProgress" /\ Aborted(t, timeout.timer))}
            \cup {TimerTask(timerSeq + 1, reason, expected_end_time)}
    /\ timerSeq' = timerSeq + 1
    /\ UNCHANGED <<gen, queue>>

\* timeout_reset_if_exists for Timed(duration)
ResetTimed(reason, duration) ==
    LET expected_end_time == now + duration
        timeout == blockers[reason].timeout
    IN
    /\ IF timeout.kind = "InProgress" /\ expected_end_time < timeout.end_time
       THEN UNCHANGED <<blockers, timers, timerSeq, deadline>>
       ELSE /\ deadline' = [deadline EXCEPT ![reason] = expected_end_time]
            /\ blockers' =
                PutBlocker(reason,
                    [rollback_to_blocked_progress(blockers[reason])
                        EXCEPT !.timeout = InProgress(expected_end_time, timerSeq + 1)])
            \* timer_handle.abort() of the timer in progress, then the new timer
            /\ timers' =
                {t \in timers : ~(timeout.kind = "InProgress" /\ Aborted(t, timeout.timer))}
                    \cup {TimerTask(timerSeq + 1, reason, expected_end_time)}
            /\ timerSeq' = timerSeq + 1
    /\ UNCHANGED <<gen, queue>>

\* block(exchange_account_id, reason, Timed(duration))
BlockTimed(reason, duration) ==
    /\ budget.timed > 0
    /\ now + duration <= MaxTime
    /\ budget' = [budget EXCEPT !.timed = @ - 1]
    /\ IF Present(reason) THEN ResetTimed(reason, duration) ELSE BlockVacantTimed(reason, duration)
    /\ UNCHANGED <<proc, cancelled, stopHandle, stopPending, tasks, invoked, pendingUnblock,
                   now, waiters, manualSince, panics,
                   handlers, brmVars>>

(* ------------------------------ unblock ------------------------------ *)

\* a variant of UnblockFlag that goes on to send the event when no blocker was found
UnblockFlagAlways(reason) ==
    /\ blockers' = [x \in DOMAIN blockers |->
                        IF x = reason
                        THEN [blockers[x] EXCEPT !.is_unblock_requested = TRUE]
                        ELSE blockers[x]]
    /\ pendingUnblock' = [pendingUnblock EXCEPT ![reason] = @ + 1]
    /\ manualSince' = [manualSince EXCEPT ![reason] = FALSE]

\* unblock(): the part under the read lock
UnblockFlag(reason) ==
    /\ IF Present(reason)
       THEN /\ blockers' = [blockers EXCEPT ![reason].is_unblock_requested = TRUE]
            /\ pendingUnblock' = [pendingUnblock EXCEPT ![reason] = @ + 1]
       ELSE UNCHANGED <<blockers, pendingUnblock>>
    /\ manualSince' = [manualSince EXCEPT ![reason] = FALSE]

\* unblock(exchange_account_id, reason) called by a client
Unblock(reason) ==
    /\ budget.unblock > 0
    /\ budget' = [budget EXCEPT !.unblock = @ - 1]
    /\ UnblockFlag(reason)
    /\ UNCHANGED <<gen, queue, proc, cancelled, stopHandle, stopPending, tasks, invoked,
                   timers, timerSeq, now, waiters, panics,
                   handlers, deadline, brmVars>>

\* unblock(): add_event(UnblockRequested) after the read lock was released
UnblockSend(reason) ==
    /\ pendingUnblock[reason] > 0
    /\ pendingUnblock' = [pendingUnblock EXCEPT ![reason] = @ - 1]
    /\ queue' = add_event(queue, Event(reason, "UnblockRequested"))
    /\ UNCHANGED <<blockers, gen, proc, cancelled, stopHandle, stopPending, tasks, invoked,
                   timers, timerSeq, now, waiters, budget, manualSince, panics,
                   handlers, deadline, brmVars>>

(* ------------------------------- timers ------------------------------ *)

\* a variant of TimerReady for a timer that does not sleep
TimerReadyAtOnce(t) == TRUE

\* sleep_until(end_time) has completed
TimerReady(t) == now >= t.end_time

\* the timer task is polled after its sleep: sleep_until returns
TimerWake(t) ==
    /\ t \in timers
    /\ t.phase = "sleeping"
    /\ TimerReady(t)
    /\ timers' = (timers \ {t}) \cup {[t EXCEPT !.phase = "woken"]}
    /\ UNCHANGED <<blockers, gen, queue, proc, cancelled, stopHandle, stopPending, tasks, invoked,
                   pendingUnblock, timerSeq, now, waiters, budget, manualSince, panics,
                   handlers, deadline, brmVars>>

\* the timer task looks the blocker up by its reason under the read lock and sets the
\* timeout it finds to ReadyUnblock
TimerExpire(t) ==
    /\ t \in timers
    /\ t.phase = "woken"
    /\ timers' = (timers \ {t}) \cup {[t EXCEPT !.phase = "expired"]}
    /\ IF Present(t.reason)
       THEN blockers' = [blockers EXCEPT ![t.reason].timeout = ReadyUnblock]
       ELSE UNCHANGED blockers
    /\ UNCHANGED <<gen, queue, proc, cancelled, stopHandle, stopPending, tasks, invoked,
                   pendingUnblock, timerSeq, now, waiters, budget, manualSince, panics,
                   handlers, deadline, brmVars>>

\* the timer task calls unblock(): the part under the read lock; the task ends after
\* the event was sent
TimerUnblock(t) ==
    /\ t \in timers
    /\ t.phase = "expired"
    /\ timers' = timers \ {t}
    /\ UnblockFlag(t.reason)
    /\ UNCHANGED <<gen, queue, proc, cancelled, stopHandle, stopPending, tasks, invoked,
                   timerSeq, now, waiters, budget, panics,
                   handlers, deadline, brmVars>>

\* the steps of the timer tasks
TimerStep ==
    \/ \E t \in timers : TimerWake(t)
    \/ \E t \in timers : TimerExpire(t)
    \/ \E t \in timers : TimerUnblock(t)

\* time passes
Tick ==
    /\ now < MaxTime
    /\ now' = now + 1
    /\ UNCHANGED <<blockers, gen, queue, proc, cancelled, stopHandle, stopPending, tasks,
                   invoked, pendingUnblock, timers, timerSeq, waiters, budget, manualSince,
                   panics,
                   handlers, deadline, brmVars>>

(* ----------------------------- processor ----------------------------- *)

\* remove_blocker: notify_waiters() and remove_entry under one write lock
remove_blocker(reason) == DropBlocker(reason)

\* the channel contents after the processing task has taken the first event
Received == Tail(queue)

\* the loop condition of processing(): a cancelled processor closes the receiver and ends
AfterEvent(q) ==
    /\ proc' = IF cancelled THEN "closed" ELSE "recv"
    /\ queue' = IF cancelled THEN <<>> ELSE q

\* (WaitBlockedMove, MoveToBlocked): spawn the task that runs the Blocked handlers
OnMoveToBlocked(event) ==
    /\ tasks' = Spawn(Task(event.reason, "Blocked"))
    /\ AfterEvent(Received)
    /\ UNCHANGED blockers

\* a variant of OnUnblockRequested that leaves out the BeforeUnblocked moment
OnUnblockRequestedSkip(event) ==
    /\ blockers' = [blockers EXCEPT ![event.reason].status = "WaitUnblockedMove"]
    /\ AfterEvent(Append(Received, Event(event.reason, "MoveBeforeUnblockedToUnblocked")))
    /\ UNCHANGED tasks

\* (ProgressBlocked, UnblockRequested)
OnUnblockRequested(event) ==
    /\ blockers' = [blockers EXCEPT ![event.reason].status = "WaitBeforeUnblockedMove"]
    /\ AfterEvent(Append(Received, Event(event.reason, "MoveBlockedToBeforeUnblocked")))
    /\ UNCHANGED tasks

\* (WaitBeforeUnblockedMove, MoveBlockedToBeforeUnblocked)
OnMoveBlockedToBeforeUnblocked(event) ==
    /\ tasks' = Spawn(Task(event.reason, "BeforeUnblocked"))
    /\ AfterEvent(Received)
    /\ UNCHANGED blockers

\* a variant of OnMoveBeforeUnblockedToUnblocked that runs the Unblocked handlers and
\* leaves the blocker in the map
OnMoveBeforeUnblockedToUnblockedKeep(event) ==
    /\ tasks' = Spawn(Task(event.reason, "Unblocked"))
    /\ AfterEvent(Received)
    /\ UNCHANGED blockers

\* (WaitUnblockedMove, MoveBeforeUnblockedToUnblocked)
OnMoveBeforeUnblockedToUnblocked(event) ==
    /\ blockers' = remove_blocker(event.reason)
    /\ tasks' = Spawn(Task(event.reason, "Unblocked"))
    /\ AfterEvent(Received)

\* a variant of OnOther that treats an event outside the table as the end of the cycle
OnOtherRemove ==
    /\ blockers' = remove_blocker(Head(queue).reason)
    /\ AfterEvent(Received)
    /\ UNCHANGED tasks

\* every other (status, event type) pair: nothing_to_do()
OnOther ==
    /\ AfterEvent(Received)
    /\ UNCHANGED <<blockers, tasks>>

\* move_next_blocker_state_if_can(event) for an event whose blocker exists
move_next_blocker_state_if_can(event) ==
    LET progress == blockers[event.reason].status
        pair == <<progress, event.event_type>>
    IN  CASE pair = <<"WaitBlockedMove", "MoveToBlocked">> -> OnMoveToBlocked(event)
          [] pair = <<"ProgressBlocked", "UnblockRequested">> -> OnUnblockRequested(event)
          [] pair = <<"WaitBeforeUnblockedMove", "MoveBlockedToBeforeUnblocked">> ->
                OnMoveBlockedToBeforeUnblocked(event)
          [] pair = <<"WaitUnblockedMove", "MoveBeforeUnblockedToUnblocked">> ->
                OnMoveBeforeUnblockedToUnblocked(event)
          [] OTHER -> OnOther

\* one iteration of processing(): recv() and move_next_blocker_state_if_can
Process ==
    /\ proc = "recv"
    /\ queue # <<>>
    /\ Present(Head(queue).reason)
    /\ move_next_blocker_state_if_can(Head(queue))
    /\ UNCHANGED <<gen, cancelled, stopHandle, stopPending, invoked, pendingUnblock, timers,
                   timerSeq, now, waiters, budget, manualSince, panics,
                   handlers, deadline, brmVars>>

\* blocker_progress_apply_fn finds no blocker for the event: expect() panics, the
\* processing task ends and its receiver is dropped
ProcessPanic ==
    /\ proc = "recv"
    /\ queue # <<>>
    /\ ~Present(Head(queue).reason)
    /\ proc' = "panicked"
    /\ queue' = <<>>
    /\ UNCHANGED <<blockers, gen, cancelled, stopHandle, stopPending, tasks, invoked,
                   pendingUnblock, timers, timerSeq, now, waiters, budget, manualSince, panics,
                   handlers, deadline, brmVars>>

(* --------------------------- handler tasks --------------------------- *)

ReplaceTask(old, new) == (tasks (-) SetToBag({old})) (+) SetToBag({new})

EndTask(old) == tasks (-) SetToBag({old})

\* run_handlers: every registered handler is called once with the moment
run_handlers(t) ==
    [k \in DOMAIN invoked |->
        IF k[1] \in handlers /\ k[2] = t.reason /\ k[3] = t.moment
        THEN invoked[k] + 1
        ELSE invoked[k]]

\* the first poll of a spawned task: run_handlers creates the handler futures
TaskStart(t) ==
    /\ BagIn(t, tasks)
    /\ t.phase = "spawned"
    /\ tasks' = ReplaceTask(t, [t EXCEPT !.phase = "running", !.pending = handlers])
    /\ invoked' = run_handlers(t)
    /\ UNCHANGED <<blockers, gen, queue, proc, cancelled, stopHandle, stopPending,
                   pendingUnblock, timers, timerSeq, now, waiters, budget, manualSince, panics,
                   handlers, deadline, brmVars>>

\* a handler future completes while others of the join_all are still pending
HandlerDone(t, h) ==
    /\ BagIn(t, tasks)
    /\ t.phase = "running"
    /\ h \in t.pending
    /\ t.pending # {h}
    /\ tasks' = ReplaceTask(t, [t EXCEPT !.pending = @ \ {h}])
    /\ UNCHANGED <<blockers, gen, queue, proc, cancelled, stopHandle, stopPending, invoked,
                   pendingUnblock, timers, timerSeq, now, waiters, budget, manualSince, panics,
                   handlers, deadline, brmVars>>

\* a variant of AfterBlocked that does not look at is_unblock_requested
AfterBlockedNoRequest(is_unblock_requested) == "ProgressBlocked"

\* the status the Blocked task leaves
AfterBlocked(is_unblock_requested) ==
    IF is_unblock_requested THEN "WaitBeforeUnblockedMove" ELSE "ProgressBlocked"

\* the rest of the Blocked task after join_all
FinishBlocked(t) ==
    LET is_unblock_requested == blockers[t.reason].is_unblock_requested IN
    /\ blockers' = [blockers EXCEPT ![t.reason].status = AfterBlocked(is_unblock_requested)]
    /\ queue' = IF is_unblock_requested
                THEN add_event(queue, Event(t.reason, "MoveBlockedToBeforeUnblocked"))
                ELSE queue

\* the rest of the BeforeUnblocked task after join_all
FinishBeforeUnblocked(t) ==
    /\ blockers' = [blockers EXCEPT ![t.reason].status = "WaitUnblockedMove"]
    /\ queue' = add_event(queue, Event(t.reason, "MoveBeforeUnblockedToUnblocked"))

\* the last handler future completes: join_all returns and the task runs to its end
TaskFinish(t, h) ==
    /\ BagIn(t, tasks)
    /\ t.phase = "running"
    /\ t.pending = {h}
    /\ tasks' = EndTask(t)
    /\ CASE t.moment = "Unblocked" -> UNCHANGED <<blockers, queue, panics>>
         [] t.moment # "Unblocked" /\ ~Present(t.reason) ->
                \* blocker_progress_apply_fn: expect() panics in the task
                /\ panics' = TRUE
                /\ UNCHANGED <<blockers, queue>>
         [] t.moment = "Blocked" /\ Present(t.reason) ->
                FinishBlocked(t) /\ UNCHANGED panics
         [] t.moment = "BeforeUnblocked" /\ Present(t.reason) ->
                FinishBeforeUnblocked(t) /\ UNCHANGED panics
    /\ UNCHANGED <<gen, proc, cancelled, stopHandle, stopPending, invoked, pendingUnblock,
                   timers, timerSeq, now, waiters, budget, manualSince,
                   handlers, deadline, brmVars>>

(* ------------------------------ waiters ------------------------------ *)

\* the Notify objects wait_unblock clones under the read lock
AllNotifies == {<<r, gen[r]>> : r \in DOMAIN blockers}

\* the Notify object wait_unblock_with_reason clones under the read lock
ReasonNotifies(reason) == IF Present(reason) THEN {<<reason, gen[reason]>>} ELSE {}

Snapshot(target) == IF target = "all" THEN AllNotifies ELSE ReasonNotifies(target)

\* the waiter after reading the map: it returns when it found nothing to wait for
Snapped(w, target) ==
    IF Snapshot(target) = {}
    THEN [waiters[w] EXCEPT !.pc = "done", !.target = target, !.snap = {}, !.ret = "unblocked"]
    ELSE [waiters[w] EXCEPT !.pc = "snapped", !.target = target, !.snap = Snapshot(target)]

WaiterFrame ==
    UNCHANGED <<blockers, gen, queue, proc, cancelled, stopHandle, stopPending, tasks, invoked,
                pendingUnblock, timers, timerSeq, now, budget, manualSince, panics,
                   handlers, deadline, brmVars>>

\* wait_unblock(exchange_account_id, token) is called: the first collect of the notifies
wait_unblock(w) ==
    /\ waiters[w].pc = "idle"
    /\ waiters' = [waiters EXCEPT ![w] = Snapped(w, "all")]
    /\ WaiterFrame

\* wait_unblock_with_reason(exchange_account_id, reason, token) is called
wait_unblock_with_reason(w, reason) ==
    /\ waiters[w].pc = "idle"
    /\ waiters' = [waiters EXCEPT ![w] = Snapped(w, reason)]
    /\ WaiterFrame

\* wait_unblock: the next turn of the loop collects the notifies again
WaitAgain(w) ==
    /\ waiters[w].pc = "loop"
    /\ waiters' = [waiters EXCEPT ![w] = Snapped(w, "all")]
    /\ WaiterFrame

\* notified() is called on the cloned Notify objects: a Notified future created
\* after notify_waiters() does not see that call
WaitRegister(w) ==
    /\ waiters[w].pc = "snapped"
    /\ waiters' = [waiters EXCEPT ![w].pc = "waiting",
                                  ![w].missed = \E n \in waiters[w].snap : Fired(n)]
    /\ WaiterFrame

\* every Notified future of the waiter has completed
Notified(w) == ~waiters[w].missed /\ \A n \in waiters[w].snap : Fired(n)

\* a variant of Rechecked without the is_blocked check after the wake-up
RecheckedNever(w) == [waiters[w] EXCEPT !.pc = "done", !.snap = {}, !.ret = "unblocked"]

\* wait_unblock after its futures completed: break when the exchange is not blocked
Rechecked(w) ==
    IF waiters[w].target = "all" /\ is_blocked
    THEN [waiters[w] EXCEPT !.pc = "loop", !.snap = {}]
    ELSE [waiters[w] EXCEPT !.pc = "done", !.snap = {}, !.ret = "unblocked"]

\* the select! of the waiter completes by its Notified futures
WaitWake(w) ==
    /\ waiters[w].pc = "waiting"
    /\ Notified(w)
    /\ waiters' = [waiters EXCEPT ![w] = Rechecked(w)]
    /\ WaiterFrame

\* the select! of the waiter completes by cancellation_token.when_cancelled()
WaitCancelled(w) ==
    /\ waiters[w].pc = "waiting"
    /\ waiters' = [waiters EXCEPT ![w] = [@ EXCEPT !.pc = "done", !.snap = {}, !.missed = FALSE,
                                                   !.ret = "cancelled"]]
    /\ WaiterFrame

(* ------------------------------ do_action ---------------------------- *)

\* cycles each do_action task runs on its reason
MaxCycles == 2

\* a task that runs block(e, r, Manual); unblock(e, r); wait_unblock_with_reason(e, r)
\* on its reason r, again and again; it is kept in waiters[r] with the cycles started
CycleTask == [pc |-> "idle", target |-> "none", snap |-> {}, missed |-> FALSE, ret |-> "none",
              cycle |-> 0]

CycleFrame ==
    UNCHANGED <<proc, cancelled, stopHandle, stopPending, tasks, invoked, timers, timerSeq, now,
                budget, panics, handlers, deadline, brmVars>>

\* do_action: block(e, r, Manual), at the start or after the previous cycle has returned
CycleBlock(r) ==
    /\ waiters[r].pc \in {"idle", "done"}
    /\ waiters[r].cycle < MaxCycles
    /\ IF Present(r) THEN ResetManual(r) ELSE BlockVacantManual(r)
    /\ waiters' = [waiters EXCEPT ![r].pc = "blocked", ![r].cycle = @ + 1]
    /\ UNCHANGED pendingUnblock
    /\ CycleFrame

\* do_action: unblock(e, r), the part under the read lock
CycleUnblock(r) ==
    /\ waiters[r].pc = "blocked"
    /\ UnblockFlag(r)
    /\ waiters' = [waiters EXCEPT ![r].pc = "unblocked"]
    /\ UNCHANGED <<gen, queue>>
    /\ CycleFrame

\* do_action: wait_unblock_with_reason(e, r, token) once unblock has returned
CycleWait(r) ==
    /\ waiters[r].pc = "unblocked"
    /\ pendingUnblock[r] = 0
    /\ waiters' = [waiters EXCEPT ![r] = Snapped(r, r)]
    /\ WaiterFrame

\* tasks of block_many_times_with_random_reasons running at the same time
NumJobs == 3

\* they are kept in waiters beside the tasks that wait
Jobs == (NumWaiters + 1)..(NumWaiters + NumJobs)

\* a task that runs block(e, reason, Manual); yield_now; unblock(e, reason)
JobTask(reason) ==
    [pc |-> "start", target |-> reason, snap |-> {}, missed |-> FALSE, ret |-> "none"]

\* do_action: block(e, reason, Manual)
JobBlock(j) ==
    /\ waiters[j].pc = "start"
    /\ IF Present(waiters[j].target)
       THEN ResetManual(waiters[j].target)
       ELSE BlockVacantManual(waiters[j].target)
    /\ waiters' = [waiters EXCEPT ![j].pc = "blocked"]
    /\ UNCHANGED pendingUnblock
    /\ CycleFrame

\* do_action: unblock(e, reason), the part under the read lock
JobUnblock(j) ==
    /\ waiters[j].pc = "blocked"
    /\ UnblockFlag(waiters[j].target)
    /\ waiters' = [waiters EXCEPT ![j].pc = "finished"]
    /\ UNCHANGED <<gen, queue>>
    /\ CycleFrame

\* join_all(jobs) has returned
JobsFinished ==
    /\ \A j \in Jobs : waiters[j].pc = "finished"
    /\ \A r \in Reasons : pendingUnblock[r] = 0

(* ------------------------ reservation manager ------------------------ *)

\* the amount rounding step of the symbol and its margin error, in units
AmountStep == 3

\* amounts and prices the callers pass
MaxAmount == 10
Amounts == 1..MaxAmount

\* an order is for more than two steps
ReserveAmounts == {a \in Amounts : a > 2 * AmountStep}
Prices == {1, 2}
OrderSide == {"Buy", "Sell"}
ClientOrderIds == {"o1", "o2"}
None == "none"

\* calls of the reservation manager in one run
MaxCalls == 3

\* CurrencyPairMetadata::get_trade_code(side, Before) of a spot pair
get_trade_code(side) == IF side = "Buy" THEN "quote" ELSE "base"

\* Decimal division of a by b, for the cases where it is exact
Quotient(a, b) == IF a >= 0 THEN a \div b ELSE -((-a) \div b)

Exact(a, b) == b # 0 /\ a % b = 0

\* CurrencyPairMetadata::convert_amount_from_amount_currency_code: the amount currency is
\* the base currency, so only an amount in the quote currency is converted
convert_amount_from_amount_currency_code(code, amount, price) ==
    IF code = "quote" THEN amount * price ELSE amount

\* CurrencyPairMetadata::convert_amount_into_amount_currency_code
convert_amount_into_amount_currency_code(code, amount, price) ==
    IF code = "quote" THEN Quotient(amount, price) ELSE amount

\* CurrencyPairMetadata::round_to_remove_amount_precision_error: to the nearest step
round_to_remove_amount_precision_error(amount) ==
    LET rest == amount % AmountStep
    IN  (amount - rest) + (IF 2 * rest > AmountStep THEN AmountStep ELSE 0)

Abs(x) == IF x < 0 THEN -x ELSE x

\* BalanceReservation::is_amount_within_symbol_margin_error
is_amount_within_symbol_margin_error(amount) == Abs(amount) <= AmountStep

\* BalanceReservation::get_proportional_cost_amount
get_proportional_cost_amount(reservation, amount_diff) ==
    IF reservation.amount = 0 THEN 0
    ELSE Quotient(reservation.cost * amount_diff, reservation.amount)

\* BalanceReservation::convert_in_reservation_currency
convert_in_reservation_currency(reservation, amount) ==
    convert_amount_from_amount_currency_code(reservation.reservation_currency_code, amount,
                                             reservation.price)

\* BalanceReservation::new
NewReservation(side, price, amount, cost, code) ==
    [order_side |-> side, price |-> price, amount |-> amount, taken_free_amount |-> 0,
     cost |-> cost, reservation_currency_code |-> code, unreserved_amount |-> 0,
     not_approved_amount |-> amount, approved_parts |-> << >>]

\* ApprovedPart::new
NewApprovedPart(amount) ==
    [amount |-> amount, unreserved_amount |-> amount, is_canceled |-> FALSE]

ReserveParameters == [order_side : OrderSide, price : Prices, amount : ReserveAmounts]

\* the manager as a value: the functions below take it and give the changed one
Manager ==
    [reservations |-> reservations, reserved_amount |-> reserved_amount,
     virtual_balance |-> virtual_balance, reservation_id |-> reservation_id,
     amount_limits |-> amount_limits]

\* HashMap::insert / HashMap::remove
Put(f, k, v) == [x \in DOMAIN f \cup {k} |-> IF x = k THEN v ELSE f[x]]
Drop(f, k) == [x \in DOMAIN f \ {k} |-> f[x]]

RECURSIVE SumOver(_, _)
SumOver(f, keys) ==
    IF keys = {} THEN 0
    ELSE LET k == CHOOSE x \in keys : TRUE IN f[k] + SumOver(f, keys \ {k})

\* sync_reservation_amounts: the tree recomputed from the store
sync_reservation_amounts(m) ==
    [c \in CurrencyCodes |->
        SumOver([id \in DOMAIN m.reservations |-> m.reservations[id].unreserved_amount],
                {id \in DOMAIN m.reservations :
                    get_trade_code(m.reservations[id].order_side) = c})]

\* add_virtual_balance_by_currency_pair_metadata, not a derivative
add_virtual_balance(m, code, price, diff_in_amount_currency) ==
    [m EXCEPT !.virtual_balance[code] =
        @ + convert_amount_from_amount_currency_code(code, diff_in_amount_currency, price)]

\* add_reserved_amount_by_reservation: the reservation is a clone out of the store
add_reserved_amount_by_reservation(m, reservation, amount_diff, update_balance) ==
    LET cost == get_proportional_cost_amount(reservation, amount_diff)
        m1 == IF update_balance
              THEN add_virtual_balance(m, reservation.reservation_currency_code,
                                       reservation.price, -cost)
              ELSE m
    IN  [m1 EXCEPT !.reserved_amount[reservation.reservation_currency_code] = @ + amount_diff]

\* add_reserved_amount
add_reserved_amount(m, id, amount_diff, update_balance) ==
    LET reservation == m.reservations[id]
        m1 == add_reserved_amount_by_reservation(m, reservation, amount_diff, update_balance)
    IN  [m1 EXCEPT !.reservations[id].unreserved_amount = @ + amount_diff]

\* position_by_fill_amount_in_amount_currency: no order was filled
CurrentPosition == 0

\* get_position: the position seen from the side of the trade
get_position(side) ==
    IF get_trade_code(side) = "base" THEN -CurrentPosition ELSE CurrentPosition

Min(a, b) == IF a <= b THEN a ELSE b
Max(a, b) == IF a >= b THEN a ELSE b

\* set_target_amount_limit: the limit is set for the base and the quote key of the pair
set_target_amount_limit(m, limit) ==
    [m EXCEPT !.amount_limits = [c \in CurrencyCodes |-> <<limit>>]]

\* get_balance_with_applied_limits with leverage 1 and amount_multiplier 1: the smaller of
\* the balance and the amount the limit leaves is taken in the amount currency and
\* converted back, which is the smaller of the two in the currency of the request
get_balance_with_applied_limits(m, side, balance_in_currency_code, price) ==
    LET code == get_trade_code(side)
        limit_left_in_amount_currency ==
            m.amount_limits[code][1] - (m.reserved_amount[code] + get_position(side))
    IN  Max(0, Min(balance_in_currency_code,
                   convert_amount_from_amount_currency_code(
                       code, limit_left_in_amount_currency, price)))

\* try_get_available_balance of a spot pair
try_get_available_balance(m, side, price) ==
    LET code == get_trade_code(side)
    IN  IF m.amount_limits[code] = << >>
        THEN m.virtual_balance[code]
        ELSE get_balance_with_applied_limits(m, side, m.virtual_balance[code], price)

\* can_reserve_with_limit that compares the amount reserved before with the limit
can_reserve_with_limitBefore(m, p) ==
    LET code == get_trade_code(p.order_side)
    IN  \/ m.amount_limits[code] = << >>
        \/ Abs(m.reserved_amount[code]) <= m.amount_limits[code][1]

\* can_reserve_with_limit
can_reserve_with_limit(m, p) ==
    LET code == get_trade_code(p.order_side)
        new_reserved_amount == m.reserved_amount[code] + p.amount
        potential_position == IF p.order_side = "Buy"
                              THEN CurrentPosition + new_reserved_amount
                              ELSE CurrentPosition - new_reserved_amount
    IN  \/ m.amount_limits[code] = << >>
        \/ Abs(potential_position) <= m.amount_limits[code][1]
        \/ Abs(potential_position) < Abs(CurrentPosition)

\* can_reserve_core that rounds the balance before the reservation, not after it
can_reserve_coreOldBalance(m, p) ==
    round_to_remove_amount_precision_error(
        try_get_available_balance(m, p.order_side, p.price)) >= 0

\* can_reserve_core
can_reserve_core(m, p) ==
    LET code == get_trade_code(p.order_side)
        preset_cost == convert_amount_from_amount_currency_code(code, p.amount, p.price)
        new_balance == try_get_available_balance(m, p.order_side, p.price) - preset_cost
    IN  /\ can_reserve_with_limit(m, p)
        /\ round_to_remove_amount_precision_error(new_balance) >= 0

\* try_reserve
try_reserve(m, p) ==
    IF ~can_reserve_core(m, p)
    THEN [m |-> m, result |-> FALSE, id |-> 0]
    ELSE LET id == m.reservation_id + 1
             code == get_trade_code(p.order_side)
             reservation == NewReservation(p.order_side, p.price, p.amount, p.amount, code)
             m1 == [m EXCEPT !.reservation_id = id,
                             !.reservations = Put(@, id, reservation)]
         IN  [m |-> add_reserved_amount(m1, id, p.amount, TRUE), result |-> TRUE, id |-> id]

\* unreserve_not_approved_part that takes the amount of an approved order from
\* not_approved_amount as well
unreserve_not_approved_partFromRest(m, id, client_order_id, amount_to_unreserve) ==
    LET reservation == m.reservations[id]
        less == [m EXCEPT !.reservations[id].not_approved_amount = @ - amount_to_unreserve]
    IN  IF client_order_id = None
        THEN [m |-> less,
              ok |-> ~(/\ reservation.not_approved_amount - amount_to_unreserve < 0
                       /\ reservation.unreserved_amount > amount_to_unreserve)]
        ELSE [m |-> less, ok |-> TRUE]

\* unreserve_not_approved_part
unreserve_not_approved_part(m, id, client_order_id, amount_to_unreserve) ==
    LET reservation == m.reservations[id]
        less == [m EXCEPT !.reservations[id].not_approved_amount = @ - amount_to_unreserve]
    IN  IF client_order_id = None
        THEN [m |-> less,
              ok |-> ~(/\ reservation.not_approved_amount - amount_to_unreserve < 0
                       /\ reservation.unreserved_amount > amount_to_unreserve)]
        ELSE IF client_order_id \notin DOMAIN reservation.approved_parts
        THEN [m |-> less, ok |-> TRUE]
        ELSE LET new_amount == reservation.approved_parts[client_order_id].unreserved_amount
                                   - amount_to_unreserve
             IN  IF new_amount < 0
                 THEN [m |-> m, ok |-> FALSE]
                 ELSE [m |-> [m EXCEPT !.reservations[id].approved_parts[client_order_id]
                                            .unreserved_amount = new_amount],
                       ok |-> TRUE]

\* unreserve that removes a reservation only when nothing at all is left of it
unreserve_removeEmpty(m, id) ==
    IF m.reservations[id].unreserved_amount = 0
    THEN [m EXCEPT !.reservations = Drop(@, id)]
    ELSE m

\* unreserve, from the removal check on
unreserve_remove(m, id) ==
    LET reservation == m.reservations[id]
        removed == [m EXCEPT !.reservations = Drop(@, id)]
    IN  IF \/ reservation.unreserved_amount < 0
           \/ is_amount_within_symbol_margin_error(reservation.unreserved_amount)
        THEN IF reservation.unreserved_amount # 0
             THEN add_reserved_amount_by_reservation(removed, reservation,
                                                     -reservation.unreserved_amount, TRUE)
             ELSE removed
        ELSE m

\* unreserve that fails for every id that is not in the store
unreserveStrict(m, id, amount, client_order_id) ==
    IF id \notin DOMAIN m.reservations
    THEN [m |-> m, result |-> "error"]
    ELSE LET amount_to_unreserve == round_to_remove_amount_precision_error(amount)
             part == unreserve_not_approved_part(m, id, client_order_id, amount_to_unreserve)
         IN  IF amount_to_unreserve = 0 /\ m.reservations[id].amount # 0
             THEN [m |-> m, result |-> "ok"]
             ELSE IF ~part.ok
             THEN [m |-> part.m, result |-> "error"]
             ELSE [m |-> unreserve_remove(
                             add_reserved_amount(part.m, id, -amount_to_unreserve, TRUE), id),
                   result |-> "ok"]

\* unreserve
unreserve(m, id, amount, client_order_id) ==
    IF id \notin DOMAIN m.reservations
    THEN [m |-> m, result |-> IF is_call_from_clone \/ amount = 0 THEN "ok" ELSE "error"]
    ELSE LET amount_to_unreserve == round_to_remove_amount_precision_error(amount)
             part == unreserve_not_approved_part(m, id, client_order_id, amount_to_unreserve)
         IN  IF amount_to_unreserve = 0 /\ m.reservations[id].amount # 0
             THEN [m |-> m, result |-> "ok"]
             ELSE IF ~part.ok
             THEN [m |-> part.m, result |-> "error"]
             ELSE [m |-> unreserve_remove(
                             add_reserved_amount(part.m, id, -amount_to_unreserve, TRUE), id),
                   result |-> "ok"]

\* approve_reservation that leaves not_approved_amount as it is
approve_reservationKeepRest(m, id, client_order_id, amount) ==
    IF id \notin DOMAIN m.reservations
    THEN [m |-> m, result |-> "ok"]
    ELSE IF client_order_id \in DOMAIN m.reservations[id].approved_parts
    THEN [m |-> m, result |-> "ok"]
    ELSE [m |-> [m EXCEPT !.reservations[id].approved_parts =
                              Put(@, client_order_id, NewApprovedPart(amount))],
          result |-> "ok"]

\* approve_reservation that approves an order a second time
approve_reservationAgain(m, id, client_order_id, amount) ==
    IF id \notin DOMAIN m.reservations
    THEN [m |-> m, result |-> "ok"]
    ELSE [m |-> [m EXCEPT !.reservations[id].not_approved_amount = @ - amount,
                          !.reservations[id].approved_parts =
                              Put(@, client_order_id, NewApprovedPart(amount))],
          result |-> "ok"]

\* approve_reservation
approve_reservation(m, id, client_order_id, amount) ==
    IF id \notin DOMAIN m.reservations
    THEN [m |-> m, result |-> "ok"]
    ELSE IF client_order_id \in DOMAIN m.reservations[id].approved_parts
    THEN [m |-> m, result |-> "ok"]
    ELSE LET rest == m.reservations[id].not_approved_amount - amount
             less == [m EXCEPT !.reservations[id].not_approved_amount = rest]
         IN  IF rest < 0 /\ ~is_amount_within_symbol_margin_error(rest)
             THEN [m |-> less, result |-> "error"]
             ELSE [m |-> [less EXCEPT !.reservations[id].approved_parts =
                                          Put(@, client_order_id, NewApprovedPart(amount))],
                   result |-> "ok"]

\* cancel_approved_reservation that cancels a canceled part again
cancel_approved_reservationTwice(m, id, client_order_id) ==
    IF id \notin DOMAIN m.reservations
    THEN [m |-> m, result |-> "ok"]
    ELSE IF client_order_id \notin DOMAIN m.reservations[id].approved_parts
    THEN [m |-> m, result |-> "ok"]
    ELSE LET approved_part == m.reservations[id].approved_parts[client_order_id]
         IN  [m |-> [m EXCEPT !.reservations[id].not_approved_amount =
                                  @ + approved_part.unreserved_amount,
                              !.reservations[id].approved_parts[client_order_id]
                                  .is_canceled = TRUE],
              result |-> "ok"]

\* cancel_approved_reservation
cancel_approved_reservation(m, id, client_order_id) ==
    IF id \notin DOMAIN m.reservations
    THEN [m |-> m, result |-> "ok"]
    ELSE IF client_order_id \notin DOMAIN m.reservations[id].approved_parts
    THEN [m |-> m, result |-> "ok"]
    ELSE LET approved_part == m.reservations[id].approved_parts[client_order_id]
         IN  IF approved_part.is_canceled
             THEN [m |-> m, result |-> "error"]
             ELSE [m |-> [m EXCEPT !.reservations[id].not_approved_amount =
                                       @ + approved_part.unreserved_amount,
                                   !.reservations[id].approved_parts[client_order_id]
                                       .is_canceled = TRUE],
                   result |-> "ok"]

\* update_unreserved_amount_for_transfer, the approved part or not_approved_amount
transfer_bucket(m, id, client_order_id, is_src_request, reservation_amount_diff) ==
    LET reservation == m.reservations[id]
    IN  IF client_order_id = None
        THEN [m |-> [m EXCEPT !.reservations[id].not_approved_amount =
                                  @ + reservation_amount_diff],
              ok |-> TRUE]
        ELSE IF client_order_id \in DOMAIN reservation.approved_parts
        THEN LET new_amount == reservation.approved_parts[client_order_id].unreserved_amount
                                   + reservation_amount_diff
             IN  IF is_amount_within_symbol_margin_error(new_amount)
                 THEN [m |-> [m EXCEPT !.reservations[id].approved_parts =
                                           Drop(@, client_order_id)],
                       ok |-> TRUE]
                 ELSE IF new_amount < 0
                 THEN [m |-> m, ok |-> FALSE]
                 ELSE [m |-> [m EXCEPT
                                 !.reservations[id].approved_parts[client_order_id] =
                                     [@ EXCEPT !.unreserved_amount = new_amount,
                                               !.amount = @ + reservation_amount_diff]],
                       ok |-> TRUE]
        ELSE IF is_src_request
        THEN [m |-> m, ok |-> FALSE]
        ELSE [m |-> [m EXCEPT !.reservations[id].approved_parts =
                                  Put(@, client_order_id,
                                      NewApprovedPart(reservation_amount_diff))],
              ok |-> TRUE]

\* update_unreserved_amount_for_transfer
update_unreserved_amount_for_transfer(m, id, new_unreserved_amount, client_order_id, is_src_request, target_cost_diff) ==
    LET reservation == m.reservations[id]
        reservation_amount_diff == new_unreserved_amount - reservation.unreserved_amount
        bucket == transfer_bucket(m, id, client_order_id, is_src_request,
                                  reservation_amount_diff)
        m1 == add_reserved_amount(bucket.m, id, reservation_amount_diff, FALSE)
        cost_diff == IF is_src_request
                     THEN get_proportional_cost_amount(m1.reservations[id],
                                                       reservation_amount_diff)
                     ELSE target_cost_diff
        m2 == add_virtual_balance(m1, reservation.reservation_currency_code,
                                  reservation.price, -cost_diff)
        m3 == [m2 EXCEPT !.reservations[id].cost = @ + cost_diff,
                         !.reservations[id].amount = @ + reservation_amount_diff]
    IN  IF \/ new_unreserved_amount < 0
              /\ ~is_amount_within_symbol_margin_error(new_unreserved_amount)
           \/ ~bucket.ok
        THEN [m |-> m, ok |-> FALSE, cost_diff |-> 0, reservation |-> reservation]
        ELSE [m |-> IF is_amount_within_symbol_margin_error(new_unreserved_amount)
                    THEN [m3 EXCEPT !.reservations = Drop(@, id)]
                    ELSE m3,
              ok |-> TRUE, cost_diff |-> cost_diff, reservation |-> m3.reservations[id]]

\* transfer_amount that takes the cost off the destination as well
transfer_amountSameCostSign(m, src, dst, amount_to_move, client_order_id) ==
    LET from == update_unreserved_amount_for_transfer(
                    m, src, m.reservations[src].unreserved_amount - amount_to_move,
                    client_order_id, TRUE, 0)
        to == update_unreserved_amount_for_transfer(
                    from.m, dst, from.m.reservations[dst].unreserved_amount + amount_to_move,
                    client_order_id, FALSE, from.cost_diff)
    IN  IF ~from.ok THEN [m |-> from.m, result |-> FALSE, panic |-> TRUE, updated |-> << >>]
        ELSE IF ~to.ok THEN [m |-> to.m, result |-> FALSE, panic |-> TRUE, updated |-> << >>]
        ELSE [m |-> to.m, result |-> TRUE, panic |-> FALSE,
              updated |-> <<from.reservation, to.reservation>>]

\* transfer_amount: both expect() calls panic on an error; updated has the two
\* reservations as update_unreserved_amount_for_transfer wrote and logged them
transfer_amount(m, src, dst, amount_to_move, client_order_id) ==
    LET from == update_unreserved_amount_for_transfer(
                    m, src, m.reservations[src].unreserved_amount - amount_to_move,
                    client_order_id, TRUE, 0)
        to == update_unreserved_amount_for_transfer(
                    from.m, dst, from.m.reservations[dst].unreserved_amount + amount_to_move,
                    client_order_id, FALSE, -from.cost_diff)
    IN  IF ~from.ok THEN [m |-> from.m, result |-> FALSE, panic |-> TRUE, updated |-> << >>]
        ELSE IF ~to.ok THEN [m |-> to.m, result |-> FALSE, panic |-> TRUE, updated |-> << >>]
        ELSE [m |-> to.m, result |-> TRUE, panic |-> FALSE,
              updated |-> <<from.reservation, to.reservation>>]

\* try_transfer_reservation between two reservations of the store
try_transfer_reservation(m, src, dst, amount, client_order_id) ==
    LET amount_to_move == round_to_remove_amount_precision_error(amount)
    IN  IF m.reservations[src].order_side # m.reservations[dst].order_side
        THEN [m |-> m, result |-> FALSE, panic |-> TRUE, updated |-> << >>]
        ELSE IF amount_to_move = 0
        THEN [m |-> m, result |-> FALSE, panic |-> FALSE, updated |-> << >>]
        ELSE transfer_amount(m, src, dst, amount_to_move, client_order_id)

\* try_update_reservation_price: the approved amount that is not canceled
approved_sum(reservation) ==
    SumOver([c \in DOMAIN reservation.approved_parts |->
                reservation.approved_parts[c].unreserved_amount],
            {c \in DOMAIN reservation.approved_parts :
                ~reservation.approved_parts[c].is_canceled})

\* try_update_reservation_price: the change in the reservation currency
price_diff_in_reservation_currency(reservation, new_price) ==
    convert_amount_from_amount_currency_code(reservation.reservation_currency_code,
                                             reservation.amount - approved_sum(reservation),
                                             new_price)
        - convert_in_reservation_currency(reservation, reservation.not_approved_amount)

\* try_update_reservation_price that writes the price before it checks the balance
try_update_reservation_priceEarly(m, id, new_price) ==
    IF id \notin DOMAIN m.reservations
    THEN [m |-> m, result |-> FALSE]
    ELSE LET reservation == m.reservations[id]
             new_raw_rest_amount == reservation.amount - approved_sum(reservation)
             diff_in_reservation_currency ==
                 price_diff_in_reservation_currency(reservation, new_price)
             new_balance == try_get_available_balance(m, reservation.order_side, new_price)
                                - diff_in_reservation_currency
             reservation_amount_diff ==
                 convert_amount_into_amount_currency_code(
                     reservation.reservation_currency_code, diff_in_reservation_currency,
                     new_price)
             m1 == [m EXCEPT !.reservations[id].price = new_price,
                             !.reservations[id].unreserved_amount =
                                 @ - reservation_amount_diff]
             m2 == add_reserved_amount(m1, id, reservation_amount_diff, TRUE)
         IN  IF new_balance < 0
             THEN [m |-> [m EXCEPT !.reservations[id].price = new_price], result |-> FALSE]
             ELSE [m |-> [m2 EXCEPT !.reservations[id].not_approved_amount =
                                        new_raw_rest_amount],
                   result |-> TRUE]

\* try_update_reservation_price
try_update_reservation_price(m, id, new_price) ==
    IF id \notin DOMAIN m.reservations
    THEN [m |-> m, result |-> FALSE]
    ELSE LET reservation == m.reservations[id]
             new_raw_rest_amount == reservation.amount - approved_sum(reservation)
             diff_in_reservation_currency ==
                 price_diff_in_reservation_currency(reservation, new_price)
             new_balance == try_get_available_balance(m, reservation.order_side, new_price)
                                - diff_in_reservation_currency
             reservation_amount_diff ==
                 convert_amount_into_amount_currency_code(
                     reservation.reservation_currency_code, diff_in_reservation_currency,
                     new_price)
             m1 == [m EXCEPT !.reservations[id].price = new_price,
                             !.reservations[id].unreserved_amount =
                                 @ - reservation_amount_diff]
             m2 == add_reserved_amount(m1, id, reservation_amount_diff, TRUE)
         IN  IF new_balance < 0
             THEN [m |-> m, result |-> FALSE]
             ELSE [m |-> [m2 EXCEPT !.reservations[id].not_approved_amount =
                                        new_raw_rest_amount],
                   result |-> TRUE]

(* ----------- reservation manager: derivative markets ---------------- *)

\* two exchange accounts that trade the same inverse perpetual: the balance currency is the
\* base currency, which is the amount currency, and every account has its own balance of
\* it; the tree and the balances are kept by account
ExchangeAccounts == {"acc1", "acc2"}

\* leverage_by_currency_pair and amount_multiplier of the pair
Leverage == 3
AmountMultiplier == 1

\* position_by_fill_amount_in_amount_currency of each account: long, three amount steps
PositionByFill == 3 * AmountStep

\* the balance of each account, a multiple of 20 units
DerivativeBalance == 60

\* get_position_in_amount_currency_code of a derivative
get_position_in_amount_currency_code(exchange_account_id, side) ==
    IF side = "Buy" THEN Max(0, -PositionByFill) ELSE Max(0, PositionByFill)

\* get_unreserved_position_in_amount_currency_code: the taken free amounts of all
\* reservations of the storage on the side of the trade are taken off the position
get_unreserved_position_in_amount_currency_code(m, exchange_account_id, side) ==
    LET taken_amount ==
            SumOver([id \in DOMAIN m.reservations |-> m.reservations[id].taken_free_amount],
                    {id \in DOMAIN m.reservations : m.reservations[id].order_side = side})
    IN  Max(0, get_position_in_amount_currency_code(exchange_account_id, side) - taken_amount)

\* calculate_reservation_cost of a derivative
calculate_reservation_cost(m, p) ==
    LET free_amount == get_unreserved_position_in_amount_currency_code(
                           m, p.exchange_account_id, p.order_side)
        amount_to_pay_for == Max(0, p.amount - free_amount)
    IN  [cost |-> Quotient(amount_to_pay_for * AmountMultiplier, Leverage),
         taken_free_amount |-> p.amount - amount_to_pay_for]

\* can_reserve_core of a derivative without amount limits: the balance without the
\* untouchable 5% of it, less the cost, rounded to the nearest step, is not below zero;
\* the comparison is made in twentieths of a unit
can_reserve_derivative(m, p) ==
    LET balance == m.virtual_balance[p.exchange_account_id]
        preset_cost == calculate_reservation_cost(m, p).cost
    IN  2 * (19 * balance - 20 * preset_cost) > -20 * AmountStep

\* try_reserve on a derivative market
try_reserve_derivative(m, p) ==
    IF ~can_reserve_derivative(m, p)
    THEN [m |-> m, result |-> FALSE, id |-> 0]
    ELSE LET id == m.reservation_id + 1
             preset == calculate_reservation_cost(m, p)
             reservation ==
                 [NewReservation(p.order_side, p.price, p.amount, preset.cost,
                                 p.exchange_account_id)
                     EXCEPT !.taken_free_amount = preset.taken_free_amount]
                 @@ [exchange_account_id |-> p.exchange_account_id]
             m1 == [m EXCEPT !.reservation_id = id,
                             !.reservations = Put(@, id, reservation)]
         IN  [m |-> add_reserved_amount(m1, id, p.amount, TRUE), result |-> TRUE, id |-> id]

\* VirtualBalanceHolder::get_virtual_balance of a derivative: the balance of the account is
\* kept in the balance currency and given in the currency of the request
get_virtual_balance_derivative(m, exchange_account_id, code, price) ==
    convert_amount_from_amount_currency_code(code, m.virtual_balance[exchange_account_id], price)

\* BalanceReservation::convert_in_reservation_currency of a reservation on the derivative:
\* a sell is reserved in the base currency, a buy in the quote currency
convert_in_reservation_currency_derivative(reservation, amount) ==
    convert_amount_from_amount_currency_code(get_trade_code(reservation.order_side), amount,
                                             reservation.price)

\* try_transfer_reservation, the balance condition of a derivative: the available balance
\* of the destination with the free amount and without the untouchable 5%, plus the
\* difference of the conversions, is below zero; compared in units of 1 / (20 * Leverage)
insufficient_balance_for_transfer(m, src, dst, amount_to_move) ==
    LET src_reservation == m.reservations[src]
        dst_reservation == m.reservations[dst]
        add_amount == convert_in_reservation_currency_derivative(src_reservation, amount_to_move)
        sub_amount == convert_in_reservation_currency_derivative(dst_reservation, amount_to_move)
        balance_diff_amount == add_amount - sub_amount
        code == get_trade_code(dst_reservation.order_side)
        balance_in_currency_code ==
            get_virtual_balance_derivative(m, dst_reservation.exchange_account_id, code,
                                           dst_reservation.price)
        free_amount_in_currency_code ==
            convert_amount_from_amount_currency_code(
                code,
                get_unreserved_position_in_amount_currency_code(
                    m, dst_reservation.exchange_account_id, dst_reservation.order_side),
                dst_reservation.price)
    IN  19 * (Leverage * balance_in_currency_code
                  + free_amount_in_currency_code * AmountMultiplier)
            + 20 * Leverage * balance_diff_amount < 0

\* try_transfer_reservation of a derivative that checks the balance after the transfer
try_transfer_reservation_derivativeLate(m, src, dst, amount, client_order_id) ==
    LET amount_to_move == round_to_remove_amount_precision_error(amount)
        moved == transfer_amount(m, src, dst, amount_to_move, client_order_id)
    IN  IF \/ m.reservations[src].order_side # m.reservations[dst].order_side
           \/ m.reservations[src].exchange_account_id # m.reservations[dst].exchange_account_id
        THEN [m |-> m, result |-> FALSE, panic |-> TRUE, updated |-> << >>]
        ELSE IF amount_to_move = 0
        THEN [m |-> m, result |-> FALSE, panic |-> FALSE, updated |-> << >>]
        ELSE IF /\ m.reservations[src].price # m.reservations[dst].price
                /\ insufficient_balance_for_transfer(m, src, dst, amount_to_move)
        THEN [moved EXCEPT !.result = FALSE]
        ELSE moved

\* try_transfer_reservation between two reservations on the derivative
try_transfer_reservation_derivative(m, src, dst, amount, client_order_id) ==
    LET amount_to_move == round_to_remove_amount_precision_error(amount)
    IN  IF \/ m.reservations[src].order_side # m.reservations[dst].order_side
           \/ m.reservations[src].exchange_account_id # m.reservations[dst].exchange_account_id
        THEN [m |-> m, result |-> FALSE, panic |-> TRUE, updated |-> << >>]
        ELSE IF amount_to_move = 0
        THEN [m |-> m, result |-> FALSE, panic |-> FALSE, updated |-> << >>]
        ELSE IF /\ m.reservations[src].price # m.reservations[dst].price
                /\ insufficient_balance_for_transfer(m, src, dst, amount_to_move)
        THEN [m |-> m, result |-> FALSE, panic |-> FALSE, updated |-> << >>]
        ELSE transfer_amount(m, src, dst, amount_to_move, client_order_id)

\* try_reserve_multiple: try_reserve for every parameter set, in order
RECURSIVE reserve_each(_, _, _)
reserve_each(m, reserve_parameters, successful_reservations) ==
    IF reserve_parameters = <<>>
    THEN [m |-> m, successful_reservations |-> successful_reservations]
    ELSE LET r == try_reserve(m, Head(reserve_parameters))
         IN  reserve_each(r.m, Tail(reserve_parameters),
                          IF r.result
                          THEN Append(successful_reservations,
                                      [id |-> r.id, amount |-> Head(reserve_parameters).amount])
                          ELSE successful_reservations)

\* try_reserve_multiple: unreserve of every successful reservation, expect() on each
RECURSIVE unreserve_each(_, _)
unreserve_each(m, successful_reservations) ==
    IF successful_reservations = <<>>
    THEN [m |-> m, result |-> "ok"]
    ELSE LET r == unreserve(m, Head(successful_reservations).id,
                            Head(successful_reservations).amount, None)
         IN  IF r.result = "ok"
             THEN unreserve_each(r.m, Tail(successful_reservations))
             ELSE [m |-> r.m, result |-> "error"]

\* try_reserve_multiple
try_reserve_multiple(m, reserve_parameters) ==
    LET all == reserve_each(m, reserve_parameters, <<>>)
        back == unreserve_each(all.m, all.successful_reservations)
    IN  IF Len(all.successful_reservations) # Len(reserve_parameters)
        THEN [m |-> back.m, result |-> FALSE, panic |-> back.result # "ok", ids |-> <<>>]
        ELSE [m |-> all.m, result |-> TRUE, panic |-> FALSE,
              ids |-> [i \in 1..Len(reserve_parameters) |-> all.successful_reservations[i].id]]

(* ------------------- reservation manager: the callers ---------------- *)

CallsMade == IF outcome.call = "none" THEN 0 ELSE outcome.n

\* a caller has the lock of the manager and the last call did not panic
Panicked == outcome.call # "none" /\ outcome.panic

CanCall == CallsMade < MaxCalls /\ ~Panicked

\* no call so far has returned an error or false
AllSucceeded == outcome.call = "none" \/ outcome.clean

\* a bool as the outcome records it
Bool(b) == IF b THEN "true" ELSE "false"

\* the call returns: the manager is what the function left, the outcome is recorded
Return(r, call, result) ==
    /\ reservations' = r.m.reservations
    /\ reserved_amount' = r.m.reserved_amount
    /\ virtual_balance' = r.m.virtual_balance
    /\ reservation_id' = r.m.reservation_id
    /\ amount_limits' = r.m.amount_limits
    /\ UNCHANGED is_call_from_clone
    /\ outcome' = [call EXCEPT !.n = CallsMade + 1, !.result = result,
                                !.panic = "panic" \in DOMAIN r /\ r.panic,
                                !.clean = AllSucceeded /\ result \in {"true", "ok"}]
    /\ UNCHANGED ebVars

Call(name) ==
    [call |-> name, n |-> 0, result |-> "ok", panic |-> FALSE, clean |-> TRUE,
     before |-> Manager]

TryReserve(p) ==
    /\ CanCall
    /\ LET r == try_reserve(Manager, p)
       IN  Return(r, Call("try_reserve") @@ [params |-> p, id |-> r.id], Bool(r.result))

Unreserve(id, amount, client_order_id) ==
    /\ CanCall
    /\ LET r == unreserve(Manager, id, amount, client_order_id)
       IN  Return(r, Call("unreserve") @@ [id |-> id, amount |-> amount], r.result)

ApproveReservation(id, client_order_id, amount) ==
    /\ CanCall
    /\ LET r == approve_reservation(Manager, id, client_order_id, amount)
       IN  Return(r, Call("approve_reservation") @@ [id |-> id], r.result)

CancelApprovedReservation(id, client_order_id) ==
    /\ CanCall
    /\ LET r == cancel_approved_reservation(Manager, id, client_order_id)
       IN  Return(r, Call("cancel_approved_reservation") @@ [id |-> id], r.result)

TryTransferReservation(src, dst, amount, client_order_id) ==
    /\ CanCall
    /\ src # dst
    /\ LET r == try_transfer_reservation(Manager, src, dst, amount, client_order_id)
       IN  Return(r, Call("try_transfer_reservation") @@
                         [src |-> src, dst |-> dst, updated |-> r.updated],
                  Bool(r.result))

\* the prices passed are those for which the Decimal division is exact
TryUpdateReservationPrice(id, new_price) ==
    /\ CanCall
    /\ id \in DOMAIN reservations =>
           Exact(price_diff_in_reservation_currency(reservations[id], new_price), new_price)
    /\ LET r == try_update_reservation_price(Manager, id, new_price)
       IN  Return(r, Call("try_update_reservation_price") @@ [id |-> id], Bool(r.result))

TryReserveDerivative(p) ==
    /\ CanCall
    /\ LET r == try_reserve_derivative(Manager, p)
       IN  Return(r, Call("try_reserve") @@ [params |-> p, id |-> r.id], Bool(r.result))

TryTransferDerivative(src, dst, amount, client_order_id) ==
    /\ CanCall
    /\ src # dst
    /\ LET r == try_transfer_reservation_derivative(Manager, src, dst, amount, client_order_id)
       IN  Return(r, Call("try_transfer_reservation") @@
                         [src |-> src, dst |-> dst, amount |-> amount, updated |-> r.updated],
                  Bool(r.result))

TryReserveMultiple(reserve_parameters) ==
    /\ CanCall
    /\ LET r == try_reserve_multiple(Manager, reserve_parameters)
       IN  Return(r, Call("try_reserve_multiple") @@
                         [params |-> reserve_parameters, ids |-> r.ids], Bool(r.result))

(* -------------------------------- stop ------------------------------- *)

\* stop_processing(): cancellation_token.cancel(), then yield_now()
StopCancel ==
    /\ budget.stop > 0
    /\ budget' = [budget EXCEPT !.stop = @ - 1]
    /\ cancelled' = TRUE
    /\ stopPending' = stopPending + 1
    /\ UNCHANGED <<blockers, gen, queue, proc, stopHandle, tasks, invoked, pendingUnblock,
                   timers, timerSeq, now, waiters, manualSince, panics,
                   handlers, deadline, brmVars>>

\* a variant of StopAbort that returns without aborting the processing task
StopAbortKeep ==
    /\ stopPending > 0
    /\ stopPending' = stopPending - 1
    /\ stopHandle' = FALSE
    /\ UNCHANGED <<blockers, gen, queue, proc, cancelled, tasks, invoked, pendingUnblock, timers,
                   timerSeq, now, waiters, budget, manualSince, panics, handlers, deadline, brmVars>>

\* a variant of StopAbort that awaits the processing task only when it did not panic
StopAbortNoPanic ==
    /\ stopPending > 0
    /\ proc # "panicked"
    /\ stopPending' = stopPending - 1
    /\ stopHandle' = FALSE
    /\ proc' = IF stopHandle /\ proc = "recv" THEN "closed" ELSE proc
    /\ queue' = IF stopHandle /\ proc = "recv" THEN <<>> ELSE queue
    /\ UNCHANGED <<blockers, gen, cancelled, tasks, invoked, pendingUnblock, timers, timerSeq,
                   now, waiters, budget, manualSince, panics, handlers, deadline, brmVars>>

\* stop_processing(): take the handle, abort the processing task and await it
StopAbort ==
    /\ stopPending > 0
    /\ stopPending' = stopPending - 1
    /\ stopHandle' = FALSE
    /\ proc' = IF stopHandle /\ proc = "recv" THEN "closed" ELSE proc
    /\ queue' = IF stopHandle /\ proc = "recv" THEN <<>> ELSE queue
    /\ UNCHANGED <<blockers, gen, cancelled, tasks, invoked, pendingUnblock, timers, timerSeq,
                   now, waiters, budget, manualSince, panics,
                   handlers, deadline, brmVars>>

(* --------------------------- specifications -------------------------- *)

Budget(manual, timed, unblock, stop) ==
    [manual |-> manual, timed |-> timed, unblock |-> unblock, stop |-> stop]

\* ExchangeBlocker::new with one exchange account, the handlers registered, and the
\* calls the clients are going to make
InitBlocker(b, registered) ==
    /\ blockers = [r \in {} |-> NewBlocker(ReadyUnblock)]
    /\ gen = [r \in Reasons |-> 0]
    /\ queue = <<>>
    /\ proc = "recv"
    /\ cancelled = FALSE
    /\ stopHandle = TRUE
    /\ stopPending = 0
    /\ handlers = registered
    /\ tasks = EmptyBag
    /\ invoked = [k \in Handlers \X Reasons \X ExchangeBlockerMoment |-> 0]
    /\ pendingUnblock = [r \in Reasons |-> 0]
    /\ timers = {}
    /\ timerSeq = 0
    /\ now = 0
    /\ budget = b
    /\ manualSince = [r \in Reasons |-> FALSE]
    /\ deadline = [r \in Reasons |-> 0]
    /\ panics = FALSE

\* the blocker and the reservation manager of a new engine
InitEngine(b, registered) ==
    /\ InitBlocker(b, registered)
    /\ NewManager

\* the same with the tasks that are going to call wait_unblock / wait_unblock_with_reason
InitWith(b, registered) ==
    /\ InitEngine(b, registered)
    /\ waiters = [w \in Waiters |-> IdleWaiter]

Init == InitWith(Budget(MaxManual, 0, MaxUnblock, 0), Handlers)

\* any clients calling block(Manual) and unblock on two reasons
Next ==
    \/ \E r \in Reasons : BlockManual(r)
    \/ \E r \in Reasons : Unblock(r)
    \/ \E r \in Reasons : UnblockSend(r)
    \/ Process
    \/ ProcessPanic
    \/ \E t \in BagToSet(tasks) : TaskStart(t)
    \/ \E t \in BagToSet(tasks), h \in Handlers : HandlerDone(t, h)
    \/ \E t \in BagToSet(tasks), h \in Handlers : TaskFinish(t, h)

Spec == Init /\ [][Next]_vars

\* calls of block(_, _, Manual) in the runs with waiters
WaitManual == 3

\* calls of unblock in the runs with waiters
WaitUnblock == 2

InitWait == InitWith(Budget(WaitManual, 0, WaitUnblock, 0), {1})

\* clients calling block(Manual) and unblock on two reasons while other tasks call
\* wait_unblock or wait_unblock_with_reason; one handler is registered
NextWait ==
    \/ \E r \in Reasons : BlockManual(r)
    \/ \E r \in Reasons : Unblock(r)
    \/ \E r \in Reasons : UnblockSend(r)
    \/ Process
    \/ ProcessPanic
    \/ \E t \in BagToSet(tasks) : TaskStart(t)
    \/ \E t \in BagToSet(tasks), h \in Handlers : TaskFinish(t, h)
    \/ \E w \in Waiters : wait_unblock(w)
    \/ \E w \in Waiters, r \in Reasons : wait_unblock_with_reason(w, r)
    \/ \E w \in Waiters : WaitAgain(w)
    \/ \E w \in Waiters : WaitRegister(w)
    \/ \E w \in Waiters : WaitWake(w)
    \/ \E w \in Waiters : WaitCancelled(w)

SpecWait == InitWait /\ [][NextWait]_vars

\* the steps of the spawned handler tasks
TaskStep ==
    \/ \E t \in BagToSet(tasks) : TaskStart(t)
    \/ \E t \in BagToSet(tasks), h \in Handlers : HandlerDone(t, h)
    \/ \E t \in BagToSet(tasks), h \in Handlers : TaskFinish(t, h)

\* the runtime keeps polling the processing task and the spawned tasks, and a caller of
\* unblock() that released the read lock goes on to send its event
FairEngine ==
    /\ WF_vars(Process)
    /\ WF_vars(ProcessPanic)
    /\ WF_vars(TaskStep)
    /\ WF_vars(\E r \in Reasons : UnblockSend(r))

\* the reason of the one-cycle runs (block_with_handler)
CycleReason == "reason1"

InitCycle == InitWith(Budget(1, 0, 1, 0), Handlers)

\* one caller runs block(e, r, Manual); unblock(e, r); wait_unblock(e)
NextCycle ==
    \/ BlockManual(CycleReason)
    \/ gen[CycleReason] = 1 /\ Unblock(CycleReason)
    \/ UnblockSend(CycleReason)
    \/ Process
    \/ ProcessPanic
    \/ \E t \in BagToSet(tasks) : TaskStart(t)
    \/ \E t \in BagToSet(tasks), h \in Handlers : HandlerDone(t, h)
    \/ \E t \in BagToSet(tasks), h \in Handlers : TaskFinish(t, h)
    \/ \E w \in Waiters :
        budget.unblock = 0 /\ pendingUnblock[CycleReason] = 0 /\ wait_unblock(w)
    \/ \E w \in Waiters : WaitRegister(w)
    \/ \E w \in Waiters : WaitWake(w)

SpecCycle == InitCycle /\ [][NextCycle]_vars /\ FairEngine

\* the reason of the timer runs (block_duration)
TimedReason == "reason1"

InitTimed == InitWith(Budget(0, 1, 0, 0), Handlers)

\* one call of block(e, r, Timed(d)) and no further call
NextTimed ==
    \/ \E d \in Durations : BlockTimed(TimedReason, d)
    \/ Tick
    \/ \E t \in timers : TimerWake(t)
    \/ \E t \in timers : TimerExpire(t)
    \/ \E t \in timers : TimerUnblock(t)
    \/ UnblockSend(TimedReason)
    \/ Process
    \/ ProcessPanic
    \/ \E t \in BagToSet(tasks) : TaskStart(t)
    \/ \E t \in BagToSet(tasks), h \in Handlers : HandlerDone(t, h)
    \/ \E t \in BagToSet(tasks), h \in Handlers : TaskFinish(t, h)

\* time passes and a timer task whose sleep_until is over runs
FairTimers == WF_vars(Tick) /\ WF_vars(TimerStep)

SpecTimed == InitTimed /\ [][NextTimed]_vars /\ FairEngine /\ FairTimers

InitNotify == InitWith(Budget(MaxManual, 0, MaxUnblock, 0), {1})

\* clients calling block(Manual) and unblock while other tasks wait with a token that is
\* never cancelled; one handler is registered
NextNotify ==
    \/ \E r \in Reasons : BlockManual(r)
    \/ \E r \in Reasons : Unblock(r)
    \/ \E r \in Reasons : UnblockSend(r)
    \/ Process
    \/ ProcessPanic
    \/ \E t \in BagToSet(tasks) : TaskStart(t)
    \/ \E t \in BagToSet(tasks), h \in Handlers : TaskFinish(t, h)
    \/ \E w \in Waiters : wait_unblock(w)
    \/ \E w \in Waiters, r \in Reasons : wait_unblock_with_reason(w, r)
    \/ \E w \in Waiters : WaitAgain(w)
    \/ \E w \in Waiters : WaitRegister(w)
    \/ \E w \in Waiters : WaitWake(w)

\* the runtime keeps polling the waiting tasks
FairWaiters ==
    \A w \in Waiters :
        /\ WF_vars(WaitAgain(w))
        /\ WF_vars(WaitRegister(w))
        /\ WF_vars(WaitWake(w))

SpecNotify == InitNotify /\ [][NextNotify]_vars /\ FairEngine /\ FairWaiters

InitReblock == InitWith(Budget(0, 2, 0, 0), Handlers)

\* two calls of block(e, r, Timed(d)) at any times (reblock_before_time_is_up)
NextReblock ==
    \/ \E d \in Durations : BlockTimed(TimedReason, d)
    \/ Tick
    \/ \E t \in timers : TimerWake(t)
    \/ \E t \in timers : TimerExpire(t)
    \/ \E t \in timers : TimerUnblock(t)
    \/ UnblockSend(TimedReason)
    \/ Process
    \/ ProcessPanic
    \/ \E t \in BagToSet(tasks) : TaskStart(t)
    \/ \E t \in BagToSet(tasks), h \in Handlers : HandlerDone(t, h)
    \/ \E t \in BagToSet(tasks), h \in Handlers : TaskFinish(t, h)

SpecReblock == InitReblock /\ [][NextReblock]_vars /\ FairEngine /\ FairTimers

\* calls of stop_blocker in a run
MaxStop == 2

InitStop == InitWith(Budget(MaxManual, 0, MaxUnblock, MaxStop), Handlers)

\* clients calling block(Manual) and unblock on two reasons while stop_blocker is called
\* (block_many_times_with_stop_exchange_blocker, block_with_handler_after_stop)
NextStop ==
    \/ \E r \in Reasons : BlockManual(r)
    \/ \E r \in Reasons : Unblock(r)
    \/ \E r \in Reasons : UnblockSend(r)
    \/ Process
    \/ ProcessPanic
    \/ \E t \in BagToSet(tasks) : TaskStart(t)
    \/ \E t \in BagToSet(tasks), h \in Handlers : HandlerDone(t, h)
    \/ \E t \in BagToSet(tasks), h \in Handlers : TaskFinish(t, h)
    \/ StopCancel
    \/ StopAbort

\* the runtime resumes a stop_processing() call after its yield_now()
FairStop == WF_vars(StopAbort)

SpecStop == InitStop /\ [][NextStop]_vars /\ FairEngine /\ FairStop

InitForced == InitWith(Budget(1, 1, MaxUnblock, 0), Handlers)

\* one caller runs block(e, r, Timed(d)); unblock(e, r) before the time is up; and, when
\* is_blocked_by_reason(e, r) is false and the timer is still asleep, block(e, r, Manual)
NextForced ==
    \/ \E d \in Durations : BlockTimed(TimedReason, d)
    \/ gen[TimedReason] = 1 /\ Unblock(TimedReason)
    \/ /\ gen[TimedReason] = 1
       /\ ~Present(TimedReason)
       /\ pendingUnblock[TimedReason] = 0
       /\ \E t \in timers : t.phase = "sleeping"
       /\ BlockManual(TimedReason)
    \/ UnblockSend(TimedReason)
    \/ Tick
    \/ \E t \in timers : TimerWake(t)
    \/ \E t \in timers : TimerExpire(t)
    \/ \E t \in timers : TimerUnblock(t)
    \/ Process
    \/ ProcessPanic
    \/ \E t \in BagToSet(tasks) : TaskStart(t)
    \/ \E t \in BagToSet(tasks), h \in Handlers : HandlerDone(t, h)
    \/ \E t \in BagToSet(tasks), h \in Handlers : TaskFinish(t, h)

SpecForced == InitForced /\ [][NextForced]_vars

InitRefused == InitWith(Budget(1, 1, 0, 0), Handlers)

\* the timeout of the blocker of the reason is Timeout::InProgress
TimerInProgress(r) == Present(r) /\ blockers[r].timeout.kind = "InProgress"

\* one caller runs block(e, r, Timed(d)) and, while the timeout is in progress,
\* block(e, r, Manual); no unblock is called
NextRefused ==
    \/ \E d \in Durations : BlockTimed(TimedReason, d)
    \/ TimerInProgress(TimedReason) /\ BlockManual(TimedReason)
    \/ Tick
    \/ \E t \in timers : TimerWake(t)
    \/ \E t \in timers : TimerExpire(t)
    \/ \E t \in timers : TimerUnblock(t)
    \/ UnblockSend(TimedReason)
    \/ Process
    \/ \E t \in BagToSet(tasks) : TaskStart(t)
    \/ \E t \in BagToSet(tasks), h \in Handlers : HandlerDone(t, h)
    \/ \E t \in BagToSet(tasks), h \in Handlers : TaskFinish(t, h)

SpecRefused == InitRefused /\ [][NextRefused]_vars /\ FairEngine /\ FairTimers

InitHalt == InitWith(Budget(MaxManual, 0, MaxUnblock, 1), {1})

\* clients calling block(Manual) and unblock while other tasks wait with tokens of their
\* own, which they may cancel, and stop_blocker is called once; one handler is registered
NextHalt ==
    \/ \E r \in Reasons : BlockManual(r)
    \/ \E r \in Reasons : Unblock(r)
    \/ \E r \in Reasons : UnblockSend(r)
    \/ Process
    \/ ProcessPanic
    \/ \E t \in BagToSet(tasks) : TaskStart(t)
    \/ \E t \in BagToSet(tasks), h \in Handlers : TaskFinish(t, h)
    \/ \E w \in Waiters : wait_unblock(w)
    \/ \E w \in Waiters, r \in Reasons : wait_unblock_with_reason(w, r)
    \/ \E w \in Waiters : WaitAgain(w)
    \/ \E w \in Waiters : WaitRegister(w)
    \/ \E w \in Waiters : WaitWake(w)
    \/ \E w \in Waiters : WaitCancelled(w)
    \/ StopCancel
    \/ StopAbort

SpecHalt == InitHalt /\ [][NextHalt]_vars /\ FairEngine /\ FairWaiters /\ FairStop

InitCycles ==
    /\ InitEngine(Budget(0, 0, 0, 0), {1})
    /\ waiters = [r \in Reasons |-> CycleTask]

\* one do_action task per reason, all running at the same time (block_many_times)
NextCycles ==
    \/ \E r \in Reasons : CycleBlock(r)
    \/ \E r \in Reasons : CycleUnblock(r)
    \/ \E r \in Reasons : UnblockSend(r)
    \/ \E r \in Reasons : CycleWait(r)
    \/ \E r \in Reasons : WaitRegister(r)
    \/ \E r \in Reasons : WaitWake(r)
    \/ Process
    \/ ProcessPanic
    \/ \E t \in BagToSet(tasks) : TaskStart(t)
    \/ \E t \in BagToSet(tasks), h \in Handlers : TaskFinish(t, h)

\* the runtime keeps polling the do_action tasks
FairCycles ==
    \A r \in Reasons :
        /\ WF_vars(CycleBlock(r))
        /\ WF_vars(CycleUnblock(r))
        /\ WF_vars(CycleWait(r))
        /\ WF_vars(WaitRegister(r))
        /\ WF_vars(WaitWake(r))

SpecCycles == InitCycles /\ [][NextCycles]_vars /\ FairEngine /\ FairCycles

InitJobs ==
    /\ InitEngine(Budget(0, 0, 0, 0), {1})
    /\ \E reason \in [Jobs -> Reasons] :
           waiters = [w \in Waiters \cup Jobs |->
                          IF w \in Jobs THEN JobTask(reason[w]) ELSE IdleWaiter]

\* all jobs run at the same time; wait_unblock is called after join_all, when no
\* blocker can appear behind its snapshot, so its loop takes no second turn
NextJobs ==
    \/ \E j \in Jobs : JobBlock(j)
    \/ \E j \in Jobs : JobUnblock(j)
    \/ \E r \in Reasons : UnblockSend(r)
    \/ \E w \in Waiters : JobsFinished /\ wait_unblock(w)
    \/ \E w \in Waiters : WaitRegister(w)
    \/ \E w \in Waiters : WaitWake(w)
    \/ Process
    \/ ProcessPanic
    \/ \E t \in BagToSet(tasks) : TaskStart(t)
    \/ \E t \in BagToSet(tasks), h \in Handlers : TaskFinish(t, h)

\* the runtime keeps polling the jobs and the task that waits
FairJobs ==
    /\ \A j \in Jobs : WF_vars(JobBlock(j)) /\ WF_vars(JobUnblock(j))
    /\ \A w \in Waiters :
        /\ WF_vars(JobsFinished /\ wait_unblock(w))
        /\ WF_vars(WaitRegister(w))
        /\ WF_vars(WaitWake(w))

SpecJobs == InitJobs /\ [][NextJobs]_vars /\ FairEngine /\ FairJobs

InitManager == InitWith(Budget(0, 0, 0, 0), {})

\* the calls the claims on the reservation invariants are about
NextManager ==
    \/ \E p \in ReserveParameters : TryReserve(p)
    \/ \E id \in DOMAIN reservations, a \in Amounts, c \in ClientOrderIds \cup {None} :
           Unreserve(id, a, c)
    \/ \E id \in DOMAIN reservations, c \in ClientOrderIds, a \in Amounts :
           ApproveReservation(id, c, a)
    \/ \E id \in DOMAIN reservations, c \in ClientOrderIds : CancelApprovedReservation(id, c)
    \/ \E src, dst \in DOMAIN reservations, a \in Amounts, c \in ClientOrderIds \cup {None} :
           TryTransferReservation(src, dst, a, c)
    \/ \E id \in DOMAIN reservations, new_price \in Prices :
           TryUpdateReservationPrice(id, new_price)

SpecManager == InitManager /\ [][NextManager]_vars

\* the calls that change unreserved_amount and the reserved-amount tree
NextReserved ==
    \/ \E p \in ReserveParameters : TryReserve(p)
    \/ \E id \in DOMAIN reservations, a \in Amounts : Unreserve(id, a, None)
    \/ \E src, dst \in DOMAIN reservations, a \in Amounts :
           TryTransferReservation(src, dst, a, None)
    \/ \E id \in DOMAIN reservations, new_price \in Prices :
           TryUpdateReservationPrice(id, new_price)

SpecReserved == InitManager /\ [][NextReserved]_vars

\* try_reserve of any amount, the amounts below the amount step included, and unreserve
AnyReserveParameters == [order_side : OrderSide, price : Prices, amount : Amounts]

NextSymmetry ==
    \/ \E p \in AnyReserveParameters : TryReserve(p)
    \/ \E id \in DOMAIN reservations, a \in Amounts : Unreserve(id, a, None)

SpecSymmetry == InitManager /\ [][NextSymmetry]_vars

\* BalanceReservationManager::new as a value
EmptyManager ==
    [reservations |-> << >>,
     reserved_amount |-> [c \in CurrencyCodes |-> 0],
     virtual_balance |-> [c \in CurrencyCodes |->
                             IF c = "base" THEN BaseBalance ELSE QuoteBalance],
     reservation_id |-> 0,
     amount_limits |-> [c \in CurrencyCodes |-> << >>]]

\* amounts approved before a transfer
ApprovedAmounts == {AmountStep, AmountStep + 1}

\* the manager after two try_reserve calls on a new manager that both succeeded
InitTransfer ==
    /\ InitBlocker(Budget(0, 0, 0, 0), {})
    /\ waiters = [w \in Waiters |-> IdleWaiter]
    /\ outcome = NoCall
    /\ \E p1, p2 \in ReserveParameters :
           LET first == try_reserve(EmptyManager, p1)
               second == try_reserve(first.m, p2)
           IN  /\ first.result
               /\ second.result
               /\ reservations = second.m.reservations
               /\ reserved_amount = second.m.reserved_amount
               /\ virtual_balance = second.m.virtual_balance
               /\ reservation_id = second.m.reservation_id
               /\ amount_limits = second.m.amount_limits
               /\ is_call_from_clone = FALSE

\* approvals, partial unreserves and transfers between the two reservations
NextTransfer ==
    \/ \E id \in DOMAIN reservations, c \in ClientOrderIds, a \in ApprovedAmounts :
           ApproveReservation(id, c, a)
    \/ \E id \in DOMAIN reservations, c \in ClientOrderIds \cup {None} :
           Unreserve(id, AmountStep, c)
    \/ \E src, dst \in DOMAIN reservations, a \in Amounts, c \in ClientOrderIds \cup {None} :
           TryTransferReservation(src, dst, a, c)

SpecTransfer == InitTransfer /\ [][NextTransfer]_vars

\* try_reserve_multiple of one or two parameter sets: an amount that rounds to zero and
\* one off the amount step that the balance covers once but not always twice
MaxParameters == 2
MultipleAmounts == {1, MaxAmount}
MultipleParameters == [order_side : OrderSide, price : Prices, amount : MultipleAmounts]
ParameterLists == UNION {[1..n -> MultipleParameters] : n \in 1..MaxParameters}

NextMultiple ==
    \/ \E reserve_parameters \in ParameterLists : TryReserveMultiple(reserve_parameters)
    \/ \E id \in DOMAIN reservations : Unreserve(id, reservations[id].amount, None)

SpecMultiple == InitManager /\ [][NextMultiple]_vars

\* the amount limit of the pair, four amount steps
AmountLimit == 4 * AmountStep

\* a new manager after set_target_amount_limit(AmountLimit)
InitLimited ==
    /\ InitBlocker(Budget(0, 0, 0, 0), {})
    /\ waiters = [w \in Waiters |-> IdleWaiter]
    /\ outcome = NoCall
    /\ LET m == set_target_amount_limit(EmptyManager, AmountLimit)
       IN  /\ reservations = m.reservations
           /\ reserved_amount = m.reserved_amount
           /\ virtual_balance = m.virtual_balance
           /\ reservation_id = m.reservation_id
           /\ amount_limits = m.amount_limits
           /\ is_call_from_clone = FALSE

\* try_reserve and unreserve of any amounts under the limit
NextLimited ==
    \/ \E p \in AnyReserveParameters : TryReserve(p)
    \/ \E id \in DOMAIN reservations, a \in Amounts : Unreserve(id, a, None)

SpecLimited == InitLimited /\ [][NextLimited]_vars

\* sells and buys of two and of five amount steps on the derivative of either account
DerivativeAmounts == {2 * AmountStep, 5 * AmountStep}
DerivativeParameters ==
    [exchange_account_id : ExchangeAccounts, order_side : OrderSide, price : Prices,
     amount : DerivativeAmounts]

\* a new manager over the two accounts
InitDerivative ==
    /\ InitBlocker(Budget(0, 0, 0, 0), {})
    /\ waiters = [w \in Waiters |-> IdleWaiter]
    /\ outcome = NoCall
    /\ reservations = << >>
    /\ reserved_amount = [a \in ExchangeAccounts |-> 0]
    /\ virtual_balance = [a \in ExchangeAccounts |-> DerivativeBalance]
    /\ reservation_id = 0
    /\ amount_limits = [a \in ExchangeAccounts |-> << >>]
    /\ is_call_from_clone = FALSE

\* try_reserve on a derivative and unreserve of a whole reservation
NextDerivative ==
    \/ \E p \in DerivativeParameters : TryReserveDerivative(p)
    \/ \E id \in DOMAIN reservations : Unreserve(id, reservations[id].amount, None)

SpecDerivative == InitDerivative /\ [][NextDerivative]_vars

\* a balance of each account that two reservations use up
ScarceBalance == 6

\* amounts to transfer: one that rounds to zero and two amount steps
TransferAmounts == {1, 2 * AmountStep}

\* a new manager over two accounts with little balance
InitScarce ==
    /\ InitBlocker(Budget(0, 0, 0, 0), {})
    /\ waiters = [w \in Waiters |-> IdleWaiter]
    /\ outcome = NoCall
    /\ reservations = << >>
    /\ reserved_amount = [a \in ExchangeAccounts |-> 0]
    /\ virtual_balance = [a \in ExchangeAccounts |-> ScarceBalance]
    /\ reservation_id = 0
    /\ amount_limits = [a \in ExchangeAccounts |-> << >>]
    /\ is_call_from_clone = FALSE

\* try_reserve on the derivative and transfers between the reservations
NextScarce ==
    \/ \E p \in DerivativeParameters : TryReserveDerivative(p)
    \/ \E src \in DOMAIN reservations, dst \in DOMAIN reservations, a \in TransferAmounts :
           TryTransferDerivative(src, dst, a, None)

SpecScarce == InitScarce /\ [][NextScarce]_vars

\* the ids a caller may hold: of reservations in the store, removed or never created
ReservationIds == 1..MaxCalls

\* the amounts passed with them: one step, and more than any reservation holds
AbsentAmounts == {AmountStep, MaxAmount}

\* a new manager, or a clone of a new manager
InitAbsent ==
    /\ InitBlocker(Budget(0, 0, 0, 0), {})
    /\ waiters = [w \in Waiters |-> IdleWaiter]
    /\ outcome = NoCall
    /\ reservations = EmptyManager.reservations
    /\ reserved_amount = EmptyManager.reserved_amount
    /\ virtual_balance = EmptyManager.virtual_balance
    /\ reservation_id = EmptyManager.reservation_id
    /\ amount_limits = EmptyManager.amount_limits
    /\ is_call_from_clone \in BOOLEAN

\* the calls that take a reservation id, with ids that may not be in the store
NextAbsent ==
    \/ \E p \in ReserveParameters : TryReserve(p)
    \/ \E id \in ReservationIds, a \in AbsentAmounts \cup {0}, c \in ClientOrderIds \cup {None} :
           Unreserve(id, a, c)
    \/ \E id \in ReservationIds, c \in ClientOrderIds, a \in AbsentAmounts :
           ApproveReservation(id, c, a)
    \/ \E id \in ReservationIds, c \in ClientOrderIds : CancelApprovedReservation(id, c)
    \/ \E id \in ReservationIds, new_price \in Prices : TryUpdateReservationPrice(id, new_price)

SpecAbsent == InitAbsent /\ [][NextAbsent]_vars

\* approvals and cancels of approved parts of two reservations, a part of which may
\* have been unreserved
NextCancel ==
    \/ \E id \in DOMAIN reservations, c \in ClientOrderIds, a \in ApprovedAmounts :
           ApproveReservation(id, c, a)
    \/ \E id \in DOMAIN reservations, c \in ClientOrderIds : Unreserve(id, AmountStep, c)
    \/ \E id \in ReservationIds, c \in ClientOrderIds : CancelApprovedReservation(id, c)

SpecCancel == InitTransfer /\ [][NextCancel]_vars

\* any sequence of try_reserve, approve_reservation, unreserve and
\* try_transfer_reservation after two reservations; a third is of MaxAmount at price 1
NextSequence ==
    \/ \E p \in {q \in ReserveParameters : q.amount = MaxAmount /\ q.price = 1} : TryReserve(p)
    \/ \E id \in DOMAIN reservations, c \in ClientOrderIds, a \in ApprovedAmounts :
           ApproveReservation(id, c, a)
    \/ \E id \in DOMAIN reservations, a \in AbsentAmounts, c \in ClientOrderIds \cup {None} :
           Unreserve(id, a, c)
    \/ \E src, dst \in DOMAIN reservations, a \in AbsentAmounts, c \in ClientOrderIds \cup {None} :
           TryTransferReservation(src, dst, a, c)

SpecSequence == InitTransfer /\ [][NextSequence]_vars

(* ------------------------------- claims ------------------------------ *)

MomentRank(m) == CASE m = "Blocked" -> 1 [] m = "BeforeUnblocked" -> 2 [] m = "Unblocked" -> 3

\* invocations of handler h with moment m for reason r
Count(h, r, m) == invoked[<<h, r, m>>]

\* every registered handler was invoked exactly once with moment m for reason r
Once(r, m) == \A h \in handlers : Count(h, r, m) = 1

\* C1: in a run of block(e, r, Manual); unblock(e, r) without re-block, no handler is
\* invoked twice with a moment or with a later moment before an earlier one, and once
\* unblock was called every registered handler ends up invoked exactly once with each of
\* Blocked, BeforeUnblocked and Unblocked, wherever the request meets the Blocked handlers.
C1_CycleRunsEachMomentOnce ==
    /\ [](\A h \in handlers :
            /\ Count(h, CycleReason, "Blocked") <= 1
            /\ Count(h, CycleReason, "BeforeUnblocked") <= Count(h, CycleReason, "Blocked")
            /\ Count(h, CycleReason, "Unblocked") <= Count(h, CycleReason, "BeforeUnblocked"))
    /\ ((budget.unblock = 0) ~> [](\A m \in ExchangeBlockerMoment : Once(CycleReason, m)))

\* C1 witness: the cycle is over with every handler invoked once per moment, and the
\* unblock request was the one that had been taken into account by the Blocked task
C1_Witness ==
    /\ \A m \in ExchangeBlockerMoment : Once(CycleReason, m)
    /\ tasks = EmptyBag
    /\ budget.unblock = 0
    /\ proc = "recv"
    /\ queue = <<>>

\* C2: a reason blocked by block(e, r, Manual) has its blocker entry in every state until
\* unblock(e, r) is called after that block.
C2_ManualStaysUntilUnblock == \A r \in Reasons : manualSince[r] => is_blocked_by_reason(r)

\* C3: for one blocker, the handlers of a later moment are not invoked while a task of an
\* earlier moment still has to run or to complete its handlers.
C3_MomentsDoNotOverlap ==
    \A t1 \in BagToSet(tasks), t2 \in BagToSet(tasks) :
        (/\ t1.reason = t2.reason
         /\ t1.gen = t2.gen
         /\ MomentRank(t1.moment) < MomentRank(t2.moment)) => t2.phase # "running"

\* the step in which the call of waiter w returns without cancellation
Returns(w) ==
    /\ waiters[w].pc # "done"
    /\ waiters'[w].pc = "done"
    /\ waiters'[w].ret = "unblocked"

\* C4 as stated: when wait_unblock(e) returns after block(e, r, Manual); unblock(e, r), the
\* handler counts are Blocked=1, BeforeUnblocked=1, Unblocked=1 and is_blocked(e) is false.
C4_AllCountsOneAtReturn ==
    [][\A w \in Waiters :
          Returns(w) =>
              /\ \A m \in ExchangeBlockerMoment : Once(CycleReason, m)
              /\ ~is_blocked]_vars

\* C4 amended: when wait_unblock(e) returns after block(e, r, Manual); unblock(e, r), the
\* handler counts are Blocked=1 and BeforeUnblocked=1, the Unblocked handlers were invoked
\* at most once (they may not have been invoked yet), and is_blocked(e) is false.
C4_CountsAtReturn ==
    [][\A w \in Waiters :
          Returns(w) =>
              /\ Once(CycleReason, "Blocked")
              /\ Once(CycleReason, "BeforeUnblocked")
              /\ \A h \in handlers : Count(h, CycleReason, "Unblocked") <= 1
              /\ ~is_blocked]_vars

\* C4 witness: wait_unblock has returned and no Unblocked handler was invoked yet
C4_Witness ==
    \E w \in Waiters :
        /\ waiters[w].pc = "done"
        /\ waiters[w].ret = "unblocked"
        /\ Once(CycleReason, "BeforeUnblocked")
        /\ \A h \in handlers : Count(h, CycleReason, "Unblocked") = 0

\* C5: a call of wait_unblock(e, token) that returns without cancellation returns in a
\* state where no reason blocks e.
C5_WaitUnblockReturnsUnblocked ==
    [][\A w \in Waiters :
          (Returns(w) /\ waiters'[w].target = "all") => ~is_blocked /\ ~is_blocked']_vars

\* C5 witness: the waiter was woken by its notifications while a reason that was
\* unblocked and blocked again in the meantime still blocks, and goes on waiting
C5_Witness ==
    \E w \in Waiters, r \in Reasons :
        /\ waiters[w].pc = "loop"
        /\ Present(r)
        /\ gen[r] = 2

\* C6: once every blocker is removed and no block call is left, every pending
\* wait_unblock and wait_unblock_with_reason call eventually returns (stated for the runs
\* in which the processing task stays alive).
C6_NoLostWakeup ==
    []((budget.manual = 0 /\ ~is_blocked) =>
           <>(\/ \A w \in Waiters : waiters[w].pc \in {"idle", "done"}
              \/ proc # "recv"))

\* C7: a call of wait_unblock_with_reason(e, r, token) returns without cancellation only
\* when r had no entry at the call or the entry it waited for was removed (r is absent
\* or blocked again since), whatever the other reasons are; and the Unblocked handlers of
\* a blocker run only after its entry was removed and its waiters were notified.
C7_ReasonWaiterAfterRemoval ==
    /\ [][\A w \in Waiters, r \in Reasons :
            (Returns(w) /\ waiters'[w].target = r) =>
                \/ waiters[w].pc = "idle" /\ ~Present(r)
                \/ waiters[w].pc = "waiting" /\ waiters[w].snap # {}
                      /\ \A n \in waiters[w].snap : n[1] = r /\ Fired(n)]_vars
    /\ [](\A t \in BagToSet(tasks) : t.moment = "Unblocked" => Fired(<<t.reason, t.gen>>))

\* C7 witness: the waiter of one reason has been woken by the removal of its blocker, the
\* other reason still blocks the exchange and the Unblocked handlers have not run yet
C7_Witness ==
    \E w \in Waiters, r \in Reasons :
        /\ waiters[w].pc = "done"
        /\ waiters[w].ret = "unblocked"
        /\ waiters[w].target = r
        /\ gen[r] = 1
        /\ ~is_blocked_by_reason(r)
        /\ is_blocked
        /\ Count(1, r, "Unblocked") = 0

\* C8: the three queries agree with the entries of the map: is_blocked with "some reason
\* has an entry", is_blocked_by_reason with "r has an entry", is_blocked_except_reason
\* with "a reason other than r has an entry".
C8_QueriesMatchEntries ==
    /\ is_blocked <=> (\E r \in Reasons : r \in DOMAIN blockers)
    /\ \A r \in Reasons :
        /\ is_blocked_by_reason(r) <=> (\E x \in DOMAIN blockers : x = r)
        /\ is_blocked_except_reason(r) <=> (\E x \in DOMAIN blockers : x # r)

\* C8 witness: both reasons were blocked, one of them was unblocked and its entry removed
C8_Witness ==
    /\ budget.manual = 0
    /\ budget.unblock = 0
    /\ \A r \in Reasons : gen[r] = 1
    /\ Cardinality(DOMAIN blockers) = 1

\* C9: unblock(e, r) on a reason without blocker entry creates no blocker, changes no
\* progress state, puts no event on the queue (now or later) and invokes no handler.
C9_UnblockAbsentIsNoop ==
    [][\A r \in Reasons :
          (Unblock(r) /\ ~Present(r)) =>
              UNCHANGED <<blockers, gen, queue, proc, tasks, invoked, pendingUnblock>>]_vars

\* C9 witness: unblock was called and no blocker was ever created
C9_Witness == budget.unblock < MaxUnblock /\ \A r \in Reasons : gen[r] = 0

\* C10: after block(e, r, Timed(d)) and no further call, the blocker is not removed
\* before the end time start+d, and once it was created the BeforeUnblocked and Unblocked
\* handlers eventually run once each and the entry is removed.
C10_TimedBlockUnblocksItself ==
    /\ []((gen[TimedReason] = 1 /\ ~Present(TimedReason)) => now >= deadline[TimedReason])
    /\ ((gen[TimedReason] = 1) ~>
            [](/\ ~Present(TimedReason)
               /\ \A m \in ExchangeBlockerMoment : Once(TimedReason, m)))

\* C10 witness: the timed blocker is gone, every handler ran once per moment, and the
\* duration was longer than one tick
C10_Witness ==
    /\ gen[TimedReason] = 1
    /\ ~Present(TimedReason)
    /\ deadline[TimedReason] > 1
    /\ \A m \in ExchangeBlockerMoment : Once(TimedReason, m)

\* the second block(e, r, Timed(d2)) found the blocker of the first one and scheduled a
\* new timer for it
TimerReplaced == gen[TimedReason] = 1 /\ timerSeq = 2

\* C11: when a second block(e, r, Timed(d2)) replaces the timer of the blocker, the
\* blocker is not removed and no Unblocked handler is invoked before the new end time,
\* and the Unblocked handlers are invoked at most once.
C11_ReblockReplacesTimer ==
    TimerReplaced =>
        /\ \A h \in handlers : Count(h, TimedReason, "Unblocked") <= 1
        /\ (\/ ~Present(TimedReason)
            \/ \E h \in handlers : Count(h, TimedReason, "Unblocked") > 0)
                => now >= deadline[TimedReason]

\* a call of stop_blocker has completed: the handle was taken, the processing task
\* aborted and awaited
Stopped == ~stopHandle

\* C12: once stop_blocker has completed, a block on an absent reason still inserts its
\* blocker, no blocker is removed any more (also not after unblock), and for a reason
\* first blocked after the stop no handler is invoked with any moment.
C12_ShutdownIsTerminal ==
    /\ [][Stopped =>
            \A r \in Reasons :
                /\ Present(r) => Present(r)'
                /\ (BlockManual(r) /\ ~Present(r)) => Present(r)']_vars
    /\ \A r \in Reasons :
        []((Stopped /\ gen[r] = 0) =>
               [](\A h \in Handlers, m \in ExchangeBlockerMoment : Count(h, r, m) = 0))

\* C12 witness: after the stop a reason was blocked and unblock was called for it; the
\* request was dropped, the blocker is still there and none of its handlers was invoked
C12_Witness ==
    \E r \in Reasons :
        /\ Stopped
        /\ Present(r)
        /\ gen[r] = 1
        /\ blockers[r].is_unblock_requested
        /\ blockers[r].status = "WaitBlockedMove"
        /\ pendingUnblock[r] = 0
        /\ \A h \in Handlers, m \in ExchangeBlockerMoment : Count(h, r, m) = 0

\* C13: every call of stop_blocker returns, the second one too, whatever is on the event
\* queue, whatever handlers run and whatever block and unblock calls are made meanwhile.
C13_StopTerminates == [](stopPending > 0 => <>(stopPending = 0))

\* C13 witness: both stop calls have returned while a handler task was running and the
\* processing task had panicked
C13_Witness ==
    /\ budget.stop = 0
    /\ stopPending = 0
    /\ Stopped
    /\ proc = "panicked"
    /\ \E t \in BagToSet(tasks) : t.phase = "running"

\* every do_action task has returned from its last cycle
CyclesDone == \A r \in Reasons : waiters[r].pc = "done" /\ waiters[r].cycle = MaxCycles

\* C14: with one do_action task per reason running its cycles one after the other, all
\* cycles eventually return, and then the Blocked handler was invoked once per cycle and
\* no reason blocks the exchange.
C14_CyclesCountBlocked ==
    /\ [](CyclesDone =>
            /\ \A r \in Reasons : Count(1, r, "Blocked") = MaxCycles
            /\ ~is_blocked)
    /\ <>CyclesDone

\* C15: once all jobs (block then unblock, reasons shared between jobs) have finished,
\* the exchange eventually is fully unblocked and wait_unblock returns.
C15_JobsEndUnblocked ==
    [](JobsFinished => <>(~is_blocked /\ \A w \in Waiters : waiters[w].pc = "done"))

\* the approved amount of a reservation, all parts
approved_all(reservation) ==
    SumOver([c \in DOMAIN reservation.approved_parts |->
                reservation.approved_parts[c].unreserved_amount],
            DOMAIN reservation.approved_parts)

\* C16: after any sequence of calls that all succeeded, every reservation of the store has
\* not_approved_amount + (sum of unreserved_amount of its approved parts) = unreserved_amount
\* within the margin error; the sum is taken over all parts or, for a reservation with a
\* canceled part (whose amount is back in not_approved_amount), over the parts not canceled.
C16_ApprovedPartsAddUp ==
    (outcome.call # "none" /\ outcome.clean) =>
        \A id \in DOMAIN reservations :
            LET r == reservations[id]
            IN  \/ is_amount_within_symbol_margin_error(
                       r.not_approved_amount + approved_all(r) - r.unreserved_amount)
                \/ is_amount_within_symbol_margin_error(
                       r.not_approved_amount + approved_sum(r) - r.unreserved_amount)

\* C17: after any sequence of try_reserve, unreserve, try_transfer_reservation and
\* try_update_reservation_price calls that all succeeded, the reserved-amount tree has for
\* every key the sum of unreserved_amount of the reservations of that key, which is what
\* sync_reservation_amounts recomputes, within the margin error.
C17_TreeIsSumOfUnreserved ==
    (outcome.call # "none" /\ outcome.clean) =>
        \A c \in CurrencyCodes :
            is_amount_within_symbol_margin_error(
                reserved_amount[c] - sync_reservation_amounts(Manager)[c])

\* the step unreserve(id, p.amount, None) that follows a successful try_reserve(p) -> id
UnreservesLastReserve ==
    /\ outcome.call = "try_reserve"
    /\ outcome.result = "true"
    /\ outcome'.call = "unreserve"
    /\ outcome'.n = outcome.n + 1
    /\ outcome'.id = outcome.id
    /\ outcome'.amount = outcome.params.amount

\* the reservation is gone and the balances and the tree are what they were before the
\* reserve, within the margin error
RestoredAfterUnreserve ==
    /\ outcome'.result = "ok"
    /\ outcome.id \notin DOMAIN reservations'
    /\ \A c \in CurrencyCodes :
        /\ is_amount_within_symbol_margin_error(
               virtual_balance'[c] - outcome.before.virtual_balance[c])
        /\ is_amount_within_symbol_margin_error(
               reserved_amount'[c] - outcome.before.reserved_amount[c])

UnreserveUndoesRoundedReserve ==
    [][UnreservesLastReserve =>
          IF round_to_remove_amount_precision_error(outcome.params.amount) # 0
          THEN RestoredAfterUnreserve
          ELSE /\ outcome'.result = "ok"
               /\ UNCHANGED <<reservations, reserved_amount, virtual_balance,
                              reservation_id>>]_vars

\* the last call was a try_transfer_reservation that returned true
Transferred == outcome.call = "try_transfer_reservation" /\ outcome.result = "true"

\* unreserved_amount of reservation id in manager m, 0 for one that is not in the store
UnreservedOrZero(m, id) ==
    IF id \in DOMAIN m.reservations THEN m.reservations[id].unreserved_amount ELSE 0

\* C19: whenever try_transfer_reservation(src, dst, x, _) returns true, the sum of
\* unreserved_amount of src and dst is the same after the call as before, a reservation
\* the transfer removed counting as 0 within the margin error; the sum of their costs is
\* the same, a removed reservation counting with the cost the transfer left it with; and
\* the reserved-amount tree value of their key is unchanged.
C19_TransferConserves ==
    Transferred =>
        LET before == outcome.before.reservations
            src == outcome.src
            dst == outcome.dst
        IN  /\ is_amount_within_symbol_margin_error(
                   UnreservedOrZero(Manager, src) + UnreservedOrZero(Manager, dst)
                       - (before[src].unreserved_amount + before[dst].unreserved_amount))
            /\ outcome.updated[1].cost + outcome.updated[2].cost
                   = before[src].cost + before[dst].cost
            /\ src \in DOMAIN reservations => reservations[src] = outcome.updated[1]
            /\ dst \in DOMAIN reservations /\ reservations[dst] = outcome.updated[2]
            /\ reserved_amount = outcome.before.reserved_amount

\* C19 witness: a transfer of an approved part returned true and removed the source with
\* an amount left in it, and the destination has the part
C19_Witness ==
    /\ Transferred
    /\ outcome.src \notin DOMAIN reservations
    /\ outcome.updated[1].unreserved_amount # 0
    /\ DOMAIN outcome.before.reservations[outcome.src].approved_parts # {}
    /\ DOMAIN reservations[outcome.dst].approved_parts # {}
    /\ DOMAIN outcome.before.reservations[outcome.dst].approved_parts = {}

\* the ids are distinct and sorted
Ascending(ids) == \A i, j \in 1..Len(ids) : i < j => ids[i] < ids[j]

\* C20: try_reserve_multiple is all-or-nothing: if at least one of the parameter sets
\* cannot be reserved it returns (false, []) and the store, the reserved-amount tree and
\* the virtual balances are the same as before the call; if all can be reserved it returns
\* true with one distinct id per parameter set, sorted, each of a reservation in the store.
C20_ReserveMultipleAllOrNothing ==
    outcome.call = "try_reserve_multiple" =>
        IF outcome.result = "true"
        THEN /\ Len(outcome.ids) = Len(outcome.params)
             /\ Ascending(outcome.ids)
             /\ \A i \in 1..Len(outcome.ids) :
                    /\ outcome.ids[i] \in DOMAIN reservations
                    /\ outcome.ids[i] \notin DOMAIN outcome.before.reservations
        ELSE /\ outcome.ids = << >>
             /\ reservations = outcome.before.reservations
             /\ reserved_amount = outcome.before.reserved_amount
             /\ virtual_balance = outcome.before.virtual_balance

\* no parameter set of the last try_reserve_multiple has an amount that rounds to zero
NoneRoundsToZero ==
    \A i \in 1..Len(outcome.params) :
        round_to_remove_amount_precision_error(outcome.params[i].amount) # 0

\* the same for parameter sets whose amounts do not round to zero, which holds under
\* SpecMultiple
RoundedReserveMultipleAllOrNothing ==
    (outcome.call = "try_reserve_multiple" /\ NoneRoundsToZero) =>
        C20_ReserveMultipleAllOrNothing

\* the cost of parameter set p in the currency it is reserved in
PresetCost(p) ==
    convert_amount_from_amount_currency_code(get_trade_code(p.order_side), p.amount, p.price)

\* C21: try_reserve succeeds only if the available balance minus the cost of the
\* reservation, rounded to the amount precision, is not below zero, and then the virtual
\* balance is that difference; when it returns false no reservation is added, the id
\* returned is the default id, and the virtual balance and the reserved-amount tree are
\* unchanged.
C21_ReserveNeverOverdraws ==
    outcome.call = "try_reserve" =>
        LET code == get_trade_code(outcome.params.order_side)
            new_balance == outcome.before.virtual_balance[code] - PresetCost(outcome.params)
        IN  IF outcome.result = "true"
            THEN /\ round_to_remove_amount_precision_error(new_balance) >= 0
                 /\ virtual_balance[code] = new_balance
                 /\ outcome.id \in DOMAIN reservations
            ELSE /\ round_to_remove_amount_precision_error(new_balance) < 0
                 /\ outcome.id = 0
                 /\ reservations = outcome.before.reservations
                 /\ reservation_id = outcome.before.reservation_id
                 /\ virtual_balance = outcome.before.virtual_balance
                 /\ reserved_amount = outcome.before.reserved_amount

\* C21 witness: try_reserve returned false for a cost the balance does not cover any more
\* after the reservations made before, and would have covered at construction
C21_Witness ==
    /\ outcome.call = "try_reserve"
    /\ outcome.result = "false"
    /\ DOMAIN reservations # {}
    /\ PresetCost(outcome.params)
           <= (IF outcome.params.order_side = "Sell" THEN BaseBalance ELSE QuoteBalance)

\* C22: with an amount limit L configured for a key and position 0, try_reserve is
\* accepted only if the amount reserved for the key plus the amount asked for is at most
\* L, so across any sequence of try_reserve and unreserve the amount reserved for a key
\* never exceeds L.
C22_ReservedWithinLimit ==
    /\ \A c \in CurrencyCodes :
           amount_limits[c] # << >> => reserved_amount[c] <= amount_limits[c][1]
    /\ (outcome.call = "try_reserve" /\ outcome.result = "true") =>
           LET code == get_trade_code(outcome.params.order_side)
           IN  outcome.before.reserved_amount[code] + outcome.params.amount
                   <= amount_limits[code][1]

\* C22 witness: with three steps of the four of the limit reserved, a try_reserve of two
\* steps that the balance covers was refused
C22_Witness ==
    /\ outcome.call = "try_reserve"
    /\ outcome.result = "false"
    /\ outcome.params.amount = 2 * AmountStep
    /\ LET code == get_trade_code(outcome.params.order_side)
       IN  /\ reserved_amount[code] = 3 * AmountStep
           /\ PresetCost(outcome.params) <= virtual_balance[code]

\* C23: approve_reservation(id, o, a) on an existing reservation with no approved part for
\* o and a <= not_approved_amount returns OK, decreases not_approved_amount by a, inserts
\* an approved part for o with amount a, unreserved_amount a and is_canceled false, and
\* leaves everything else of the reservation, the other reservations, the reserved-amount
\* tree and the virtual balance unchanged.
C23_ApproveMovesAmountToPart ==
    [][\A id \in DOMAIN reservations, o \in ClientOrderIds, a \in Amounts :
          (/\ ApproveReservation(id, o, a)
           /\ o \notin DOMAIN reservations[id].approved_parts
           /\ a <= reservations[id].not_approved_amount)
          => /\ outcome'.result = "ok"
             /\ reservations' =
                    [reservations EXCEPT
                        ![id].not_approved_amount = @ - a,
                        ![id].approved_parts =
                            Put(@, o, [amount |-> a, unreserved_amount |-> a,
                                       is_canceled |-> FALSE])]
             /\ UNCHANGED <<reserved_amount, virtual_balance>>]_vars

\* C23 witness: the last call approved a part of a reservation that had been unreserved
\* in part before, and not_approved_amount is lower by the amount of the new part
C23_Witness ==
    /\ outcome.call = "approve_reservation"
    /\ outcome.result = "ok"
    /\ outcome.id \in DOMAIN reservations
    /\ LET now_ == reservations[outcome.id]
           before == outcome.before.reservations[outcome.id]
       IN  /\ before.unreserved_amount < before.amount
           /\ \E o \in DOMAIN now_.approved_parts \ DOMAIN before.approved_parts :
                  /\ now_.approved_parts[o].amount > 0
                  /\ before.not_approved_amount - now_.not_approved_amount
                         = now_.approved_parts[o].amount

\* the free position the claim describes: the position on the side of the order less the
\* taken free amounts of the reservations of that market on that side
FreeOfMarket(m, p) ==
    LET same == {id \in DOMAIN m.reservations :
                    /\ m.reservations[id].exchange_account_id = p.exchange_account_id
                    /\ m.reservations[id].order_side = p.order_side}
    IN  Max(0, get_position_in_amount_currency_code(p.exchange_account_id, p.order_side)
                   - SumOver([id \in same |-> m.reservations[id].taken_free_amount], same))

\* the reservation of the last try_reserve has the taken free amount and the cost that
\* follow from the free position of its market
CostFollowsFreeOfMarket ==
    LET p == outcome.params
        free == FreeOfMarket(outcome.before, p)
        reservation == reservations[outcome.id]
    IN  /\ reservation.taken_free_amount = Min(p.amount, free)
        /\ reservation.cost * Leverage = Max(0, p.amount - free) * AmountMultiplier

\* C24: for a derivative market try_reserve takes the free position first:
\* taken_free_amount = min(amount, free) and cost = max(0, amount - free) *
\* amount_multiplier / leverage, where free = max(0, position on the order side -
\* taken_free_amount of the live reservations of that market on that side).
C24_DerivativeTakesFreePositionFirst ==
    (outcome.call = "try_reserve" /\ outcome.result = "true") => CostFollowsFreeOfMarket

\* the same where every live reservation is of the market of the new one, which holds
\* under SpecDerivative
OneMarketTakesFreePositionFirst ==
    (/\ outcome.call = "try_reserve"
     /\ outcome.result = "true"
     /\ \A id \in DOMAIN reservations :
            reservations[id].exchange_account_id = outcome.params.exchange_account_id)
    => CostFollowsFreeOfMarket

\* the only reason blocked so far is r, its blocker is the first one created for it, and
\* block(e, r, Manual) was called again while that blocker was present
Reblocked(r) ==
    /\ gen[r] = 1
    /\ \A o \in Reasons \ {r} : gen[o] = 0
    /\ MaxManual - budget.manual >= 2

\* C25: block(e, r, Manual) on a reason that is present with a ReadyUnblock timeout leaves
\* is_unblock_requested false and the status at most ProgressBlocked, and from then on the
\* blocker stays in the map until unblock(e, r) is called again, also when a move event was
\* queued or the BeforeUnblocked handlers were running at the time of the block.
C25_ReblockStopsUnblocking ==
    /\ [][\A r \in Reasons :
            (/\ BlockManual(r)
             /\ Present(r)
             /\ blockers[r].timeout.kind = "ReadyUnblock") =>
                /\ Present(r)'
                /\ ~blockers'[r].is_unblock_requested
                /\ StatusRank(blockers'[r].status) <= StatusRank("ProgressBlocked")]_vars
    /\ [](\A r \in Reasons : (Reblocked(r) /\ manualSince[r]) => Present(r))

\* C26: every event the processor takes from the queue, and every handler task that
\* finishes and updates the progress, finds the blocker of its (exchange, reason) in the
\* map: the lookup of blocker_progress_apply_fn never fails, so neither the processing
\* task nor a handler task panics.
C26_EventsFindTheirBlocker == proc # "panicked" /\ ~panics

\* the timed blocker of the reason was removed after an explicit unblock and the reason
\* was blocked again with Manual: the blocker in the map, if any, is the second one
BlockedAgain == gen[TimedReason] = 2

\* C27: when a timed blocker was removed early by an explicit unblock and the reason was
\* then blocked again with Manual, the timer of the first blocker does not touch the second
\* one: the second blocker stays in the map with its timeout ReadyUnblock.
C27_OldTimerSparesNewBlocker ==
    BlockedAgain =>
        /\ Present(TimedReason)
        /\ blockers[TimedReason].timeout = ReadyUnblock

\* block(e, r, Timed(d)) finds a timer in progress with end_time compared to now + d
LaterTimerInProgress(r, d) ==
    /\ Present(r)
    /\ blockers[r].timeout.kind = "InProgress"
    /\ blockers[r].timeout.end_time > now + d

SameOrLaterTimerInProgress(r, d) ==
    /\ Present(r)
    /\ blockers[r].timeout.kind = "InProgress"
    /\ blockers[r].timeout.end_time >= now + d

\* what "does nothing" leaves alone: the blocker with its timeout and progress state, the
\* timer tasks, the end time scheduled last and the event queue
BlockDoesNothing == UNCHANGED <<blockers, gen, timers, timerSeq, deadline, queue, pendingUnblock>>

\* C28: block(e, r, Timed(new_d)) on a reason whose timer is in progress with
\* end_time >= now + new_d does nothing: no timer is aborted or scheduled, end_time and
\* the progress state are unchanged.
C28_ShorterTimedBlockDoesNothing ==
    [][\A r \in Reasons, d \in Durations :
        (SameOrLaterTimerInProgress(r, d) /\ BlockTimed(r, d)) => BlockDoesNothing]_vars

\* C28, with the comparison of the code: the same for end_time > now + new_d; a block
\* with end_time = now + new_d replaces the timer and rolls the progress back.
C28_StrictlyShorterTimedBlockDoesNothing ==
    [][\A r \in Reasons, d \in Durations :
        (LaterTimerInProgress(r, d) /\ BlockTimed(r, d)) => BlockDoesNothing]_vars

\* C28 witness: the second block(e, r, Timed(d)) was made while the timer of the first was
\* in progress with a later end time, and the first timer is still the only one
C28_Witness ==
    /\ budget.timed = 0
    /\ gen[TimedReason] = 1
    /\ timerSeq = 1
    /\ Present(TimedReason)
    /\ blockers[TimedReason].timeout = InProgress(deadline[TimedReason], 1)
    /\ \E t \in timers : t.id = 1 /\ t.phase = "sleeping"

\* C29: block(e, r, Manual) on a reason whose timeout is in progress changes nothing: the
\* timeout with its end_time and timer, the progress state and the event queue stay as
\* they are and the block is not accepted; the blocker is not removed before the end time
\* of its timer, and the timer then unblocks the reason.
C29_ManualOverTimedIsRefused ==
    /\ [][\A r \in Reasons :
            (TimerInProgress(r) /\ BlockManual(r)) =>
                UNCHANGED <<blockers, gen, timers, timerSeq, deadline, queue, pendingUnblock,
                            manualSince>>]_vars
    /\ []((budget.manual = 0 /\ ~Present(TimedReason)) => now >= deadline[TimedReason])
    /\ [](budget.manual = 0 => <>[](~Present(TimedReason)))

\* C29 witness: the Manual block was made before the end time of the timer, and the timer
\* has removed the blocker at its end time
C29_Witness ==
    /\ budget.manual = 0
    /\ ~manualSince[TimedReason]
    /\ gen[TimedReason] = 1
    /\ ~Present(TimedReason)
    /\ timers = {}
    /\ now = deadline[TimedReason]
    /\ \A m \in ExchangeBlockerMoment : Once(TimedReason, m)

\* the task is suspended in the select! of wait_unblock or wait_unblock_with_reason
Suspended(w) == waiters[w].pc = "waiting"

\* C30: once stop_blocker has completed, every task suspended in wait_unblock or
\* wait_unblock_with_reason on a still-blocked exchange returns.
C30_StopReleasesWaiters ==
    \A w \in Waiters :
        [](( Stopped /\ is_blocked /\ Suspended(w)) => <>(waiters[w].pc = "done"))

\* the rows of the match in move_next_blocker_state_if_can
TransitionTable ==
    {<<"WaitBlockedMove", "MoveToBlocked">>,
     <<"ProgressBlocked", "UnblockRequested">>,
     <<"WaitBeforeUnblockedMove", "MoveBlockedToBeforeUnblocked">>,
     <<"WaitUnblockedMove", "MoveBeforeUnblockedToUnblocked">>}

\* the event at the head of the queue does not match the status of its blocker
HeadOutsideTable ==
    <<blockers[Head(queue).reason].status, Head(queue).event_type>> \notin TransitionTable

\* C31: an event whose (status, event type) pair is not a row of the transition table is
\* dropped: the processor takes it from the queue and nothing else happens, no status
\* changes, no blocker is removed, no handler task is spawned and no event is sent.
C31_OtherEventsAreDropped ==
    [][(Process /\ HeadOutsideTable) =>
            /\ UNCHANGED <<blockers, gen, tasks, invoked, panics>>
            /\ queue' = Tail(queue)]_vars

\* C31 witness: unblock was called while the Blocked handlers had not finished; its
\* UnblockRequested was taken from the queue and the blocker is still WaitBlockedMove
C31_Witness ==
    \E r \in Reasons :
        /\ Present(r)
        /\ blockers[r].status = "WaitBlockedMove"
        /\ blockers[r].is_unblock_requested
        /\ pendingUnblock[r] = 0
        /\ queue = <<>>
        /\ proc = "recv"
        /\ \E t \in BagToSet(tasks) : t.reason = r /\ t.moment = "Blocked"

\* C32: when approve_reservation returns an error the reservation is as it was before the
\* call: not_approved_amount and approved_parts are unchanged.
C32_FailedApproveChangesNothing ==
    (outcome.call = "approve_reservation" /\ outcome.result = "error") =>
        reservations = outcome.before.reservations

\* C33: approve_reservation for an id that is not in the store, or for a client order id
\* that already has an approved part, returns OK and changes nothing.
C33_ApproveToleratesMissingAndDuplicate ==
    [][\A id \in ReservationIds, o \in ClientOrderIds, a \in AbsentAmounts :
          (/\ ApproveReservation(id, o, a)
           /\ \/ id \notin DOMAIN reservations
              \/ o \in DOMAIN reservations[id].approved_parts)
          => /\ outcome'.result = "ok"
             /\ UNCHANGED <<reservations, reserved_amount, virtual_balance>>]_vars

\* C33 witness: the last call approved an order that had an approved part already; the
\* part and not_approved_amount are as they were
C33_Witness ==
    /\ outcome.call = "approve_reservation"
    /\ outcome.result = "ok"
    /\ outcome.id \in DOMAIN reservations
    /\ reservations[outcome.id].approved_parts # << >>
    /\ reservations = outcome.before.reservations

\* the effect C34 describes of unreserve(id, x, Some(o)) on the approved part of o, with
\* the amount as unreserve rounds it; a reservation left with no more than the margin
\* error is removed from the store
DrawsFromApprovedPart(id, o, rounded) ==
    LET reservation == reservations[id]
        code == reservation.reservation_currency_code
    IN  IF rounded > reservation.approved_parts[o].unreserved_amount
        THEN /\ outcome'.result = "error"
             /\ UNCHANGED <<reservations, reserved_amount, virtual_balance>>
        ELSE /\ outcome'.result = "ok"
             /\ IF id \in DOMAIN reservations'
                THEN /\ reservations' =
                            [reservations EXCEPT
                                ![id].unreserved_amount = @ - rounded,
                                ![id].approved_parts[o].unreserved_amount = @ - rounded]
                     /\ reserved_amount'[code] = reserved_amount[code] - rounded
                ELSE /\ reservations' = Drop(reservations, id)
                     /\ is_amount_within_symbol_margin_error(
                            reservation.unreserved_amount - rounded)
                     /\ reserved_amount'[code] =
                            reserved_amount[code] - reservation.unreserved_amount

\* C34: unreserve(id, x, Some(o)) where o has an approved part draws only from that part:
\* it fails and changes nothing if x exceeds the part's unreserved_amount; otherwise it
\* reduces the part's unreserved_amount, the reservation's unreserved_amount and the tree
\* by x and leaves not_approved_amount unchanged.
C34_UnreserveDrawsFromApprovedPart ==
    [][outcome'.call = "unreserve" =>
          \A o \in ClientOrderIds :
              (/\ outcome'.id \in DOMAIN reservations
               /\ o \in DOMAIN reservations[outcome'.id].approved_parts
               /\ round_to_remove_amount_precision_error(outcome'.amount) # 0
               /\ Unreserve(outcome'.id, outcome'.amount, o))
              => DrawsFromApprovedPart(outcome'.id, o,
                    round_to_remove_amount_precision_error(outcome'.amount))]_vars

\* C34 witness: the last call unreserved a step from an approved part that is now smaller
\* by that step, while not_approved_amount is what it was
C34_Witness ==
    /\ outcome.call = "unreserve"
    /\ outcome.result = "ok"
    /\ outcome.id \in DOMAIN reservations
    /\ LET now_ == reservations[outcome.id]
           before == outcome.before.reservations[outcome.id]
       IN  /\ now_.not_approved_amount = before.not_approved_amount
           /\ now_.not_approved_amount > 0
           /\ \E o \in DOMAIN before.approved_parts :
                  /\ now_.approved_parts[o].unreserved_amount
                         = before.approved_parts[o].unreserved_amount - AmountStep
                  /\ now_.unreserved_amount = before.unreserved_amount - AmountStep

\* the effect C35 describes of cancel_approved_reservation(id, o)
CancelsApprovedPart(id, o) ==
    IF id \notin DOMAIN reservations \/ o \notin DOMAIN reservations[id].approved_parts
    THEN /\ outcome'.result = "ok"
         /\ UNCHANGED <<reservations, reserved_amount, virtual_balance>>
    ELSE IF reservations[id].approved_parts[o].is_canceled
    THEN /\ outcome'.result = "error"
         /\ UNCHANGED <<reservations, reserved_amount, virtual_balance>>
    ELSE /\ outcome'.result = "ok"
         /\ reservations' =
                [reservations EXCEPT
                    ![id].not_approved_amount =
                        @ + reservations[id].approved_parts[o].unreserved_amount,
                    ![id].approved_parts[o].is_canceled = TRUE]
         /\ UNCHANGED <<reserved_amount, virtual_balance>>

\* C35: cancel_approved_reservation(id, o) on a part that is not canceled adds the part's
\* unreserved_amount to not_approved_amount and sets is_canceled; on a canceled part it
\* fails and changes nothing; for a missing reservation or part it returns OK and changes
\* nothing; it never changes unreserved_amount, the tree or the virtual balance.
C35_CancelReturnsPartToRest ==
    [][outcome'.call = "cancel_approved_reservation" =>
          \A o \in ClientOrderIds :
              CancelApprovedReservation(outcome'.id, o) => CancelsApprovedPart(outcome'.id, o)]_vars

\* C35 witness: the last call was the second cancel of a part that still holds an
\* amount; it failed and the reservation is as the first cancel left it
C35_Witness ==
    /\ outcome.call = "cancel_approved_reservation"
    /\ outcome.result = "error"
    /\ reservations = outcome.before.reservations
    /\ \E o \in DOMAIN reservations[outcome.id].approved_parts :
           /\ reservations[outcome.id].approved_parts[o].is_canceled
           /\ reservations[outcome.id].approved_parts[o].unreserved_amount > 0

\* the last call was an unreserve of an id that was not in the store
UnreservedAbsent ==
    /\ outcome.call = "unreserve"
    /\ outcome.id \notin DOMAIN outcome.before.reservations

\* C36: unreserve of an id that is not in the store returns OK when the manager is a clone
\* or the amount is 0 and an error otherwise, and changes no reservation, no tree entry
\* and no virtual balance.
C36_UnreserveOfAbsentId ==
    UnreservedAbsent =>
        /\ outcome.result = IF is_call_from_clone \/ outcome.amount = 0 THEN "ok" ELSE "error"
        /\ reservations = outcome.before.reservations
        /\ reserved_amount = outcome.before.reserved_amount
        /\ virtual_balance = outcome.before.virtual_balance

\* C36 witness: a clone unreserved an amount of a reservation that a full unreserve had
\* removed, and got OK
C36_Witness ==
    /\ UnreservedAbsent
    /\ outcome.id \in 1..reservation_id
    /\ is_call_from_clone
    /\ outcome.amount # 0
    /\ outcome.result = "ok"

\* the last call was a try_transfer_reservation that returned false
TransferRefused ==
    /\ outcome.call = "try_transfer_reservation"
    /\ outcome.result = "false"
    /\ ~outcome.panic

\* C37: try_transfer_reservation that returns false, for an amount that rounds to zero or,
\* on a derivative with different prices, for a balance that would be negative, leaves the
\* reservations, the reserved-amount tree and the virtual balances unchanged.
C37_RefusedTransferChangesNothing ==
    TransferRefused =>
        /\ reservations = outcome.before.reservations
        /\ reserved_amount = outcome.before.reserved_amount
        /\ virtual_balance = outcome.before.virtual_balance

\* C37 witness: a transfer of two amount steps between two reservations of different
\* prices on the derivative was refused for the balance
C37_Witness ==
    /\ TransferRefused
    /\ round_to_remove_amount_precision_error(outcome.amount) # 0
    /\ reservations[outcome.src].price # reservations[outcome.dst].price
    /\ insufficient_balance_for_transfer(Manager, outcome.src, outcome.dst, outcome.amount)

\* the balance try_update_reservation_price would leave for new_price is below zero
BalanceBelowZeroAt(id, new_price) ==
    try_get_available_balance(Manager, reservations[id].order_side, new_price)
        - price_diff_in_reservation_currency(reservations[id], new_price) < 0

\* the effect C38 describes of try_update_reservation_price(id, new_price)
UpdatesPrice(id, new_price) ==
    IF id \notin DOMAIN reservations \/ BalanceBelowZeroAt(id, new_price)
    THEN /\ outcome'.result = "false"
         /\ UNCHANGED <<reservations, reserved_amount, virtual_balance>>
    ELSE /\ outcome'.result = "true"
         /\ id \in DOMAIN reservations'
         /\ reservations'[id].price = new_price
         /\ reservations'[id].not_approved_amount =
                reservations'[id].amount - approved_sum(reservations'[id])

\* C38: try_update_reservation_price returns false and changes no price, amount, tree
\* entry or virtual balance when the reservation is missing or the available balance at
\* new_price less the difference in the reservation currency would be negative; when it
\* succeeds the price is new_price and not_approved_amount is amount less the
\* unreserved_amount of the approved parts that are not canceled.
C38_PriceUpdateIsAllOrNothing ==
    [][outcome'.call = "try_update_reservation_price" =>
          \A new_price \in Prices :
              TryUpdateReservationPrice(outcome'.id, new_price)
                  => UpdatesPrice(outcome'.id, new_price)]_vars

\* C38 witness: the last call was refused for the balance, on a reservation of the store
C38_Witness ==
    /\ outcome.call = "try_update_reservation_price"
    /\ outcome.result = "false"
    /\ outcome.id \in DOMAIN reservations
    /\ reservations = outcome.before.reservations
    /\ \E new_price \in Prices : BalanceBelowZeroAt(outcome.id, new_price)

\* C38, the success case: a price update succeeded on a reservation with an approved part
C38_Succeeded ==
    /\ outcome.call = "try_update_reservation_price"
    /\ outcome.result = "true"
    /\ reservations[outcome.id].approved_parts # << >>
    /\ reservations[outcome.id].price # outcome.before.reservations[outcome.id].price

\* the reservation holds an amount that is neither below zero nor within the margin of it
HoldsAmount(reservation) ==
    /\ reservation.unreserved_amount > 0
    /\ ~is_amount_within_symbol_margin_error(reservation.unreserved_amount)

\* a step of unreserve or try_transfer_reservation leaves in the store no reservation
\* whose unreserved_amount it changed to within the margin of zero or below
RemovesWhenNothingIsLeft ==
    outcome'.call \in {"unreserve", "try_transfer_reservation"} =>
        \A id \in DOMAIN reservations \cap DOMAIN reservations' :
            reservations'[id].unreserved_amount # reservations[id].unreserved_amount
                => HoldsAmount(reservations'[id])

\* C39: after any sequence of try_reserve, approve_reservation, unreserve and
\* try_transfer_reservation every reservation in the store has an unreserved_amount that
\* is not below zero by more than the margin, and an unreserve or a transfer that brings
\* the unreserved_amount to within the margin of zero or below removes the reservation.
C39_StoredReservationsHoldAmount ==
    /\ [](\A id \in DOMAIN reservations :
              \/ reservations[id].unreserved_amount >= 0
              \/ is_amount_within_symbol_margin_error(reservations[id].unreserved_amount))
    /\ [][RemovesWhenNothingIsLeft]_vars

\* C39 witness: a transfer that took from the source more than it held, within the margin,
\* removed the source and left the destination in the store
C39_Witness ==
    /\ outcome.call = "try_transfer_reservation"
    /\ outcome.result = "true"
    /\ outcome.src \notin DOMAIN reservations
    /\ outcome.dst \in DOMAIN reservations
    /\ outcome.updated[1].unreserved_amount < 0

====
